---- MODULE Spec2Model ----
(***************************************************************************)
(* A model of the InFlight local MCP server's share pipeline:              *)
(*   - file-utils: getFileSize, calculateTotalSize, needsChunkedUpload,    *)
(*     chunkFiles, getChunkStats, shouldExclude, readProjectFiles,         *)
(*     readSpecificFiles                                                   *)
(*   - the share tool handler, callShareWithSSE and callChunkedShare       *)
(*                                                                         *)
(* Specifications:                                                         *)
(*   SpecChunk  chunkFiles applied to every bounded file map and maximum   *)
(*   SpecRelay  the event-stream loop of callShareWithSSE/callChunkedShare *)
(*   SpecPct    the finalize stream relaying one progress percentage        *)
(*   Spec       one invocation of the share tool handler                   *)
(*   SpecFiles  readProjectFiles / readSpecificFiles on bounded file trees *)
(*   SpecDeps   analyzeDependencies on bounded projects and entry points    *)
(*   SpecGit    getGitDiff on bounded repositories                          *)
(*   SpecBin    the entry stored for one file of given name and bytes       *)
(*   SpecAuth   authenticate(): the callback listener, its timer, requests  *)
(*   SpecProject  analyzeProjectDependencies on bounded diffs               *)
(***************************************************************************)
EXTENDS Integers, Sequences, FiniteSets, TLC

VARIABLES
    \* ---- chunkFiles (SpecChunk)
    cfFiles,      \* the FileMap given to chunkFiles: entries in insertion order
    cfMax,        \* maxChunkSize
    cfChunks,     \* the returned FileMap[]
    cfPc,         \* "call" before chunkFiles ran, "done" after
    \* ---- the upload loop of callChunkedShare by itself (SpecProgress)
    upCount,      \* chunks.length
    upNext,       \* the loop variable i
    upPcts,       \* the chunkProgress values passed to onProgress so far
    \* ---- the event-stream loop (SpecRelay, Spec)
    rMode,        \* "single" (callShareWithSSE) or "chunked" (callChunkedShare)
    stream,       \* the text the server writes before closing, as tokens
    rpos,         \* how many tokens reader.read() has delivered so far
    buffer,       \* the loop's `buffer`: the incomplete last line
    calls,        \* the onProgress / onError invocations, in order
    outcome,      \* Pending while running, else what the function returned or threw
    sawDone,      \* reader.read() has returned done = true
    rPc,          \* "idle", "reading", "done"
    \* ---- the share tool handler (Spec)
    hPc,          \* where the handler is
    hFiles,       \* `files`: the assembled FileMap
    hReader,      \* which reader assembled it
    authCalls,    \* how many times authenticate() was started
    hSteps,       \* the checks and steps the handler made, in order
    chunks,       \* callChunkedShare's `chunks`
    upIdx,        \* callChunkedShare's loop index i
    sent,         \* every HTTP request issued, in order
    replies,      \* the responses received, replies[k] answering sent[k]
    inflight,     \* the requests awaiting their response
    notifs,       \* the progress values passed to sendProgress, in order
    hResult,      \* what the handler returned
    \* ---- readProjectFiles / readSpecificFiles (SpecFiles)
    platform,     \* process.platform: "posix" or "win32"
    fs,           \* the project directory: path components |-> kind of node
    rfCall,       \* the reader call made and its arguments
    rfResult,     \* the returned FileMap: key |-> the node whose content it holds
    \* ---- analyzeDependencies (SpecDeps)
    daInput,      \* entryPoints, pathAliases, and whether ../packages holds the scoped packages
    resolvedFiles,      \* the Set the plugin adds root-relative paths to
    npmPackages,        \* the Map name -> specifiers, as <<name, specifier>> pairs
    workspacePackages,  \* the Map name -> {resolvedPath, imports}, one record per import
    daQueue,      \* the files the engine has resolved and not loaded yet
    daLoaded,     \* the files the engine has loaded
    daFailed,     \* the build has an error: esbuild.build rejects
    daPc,         \* "idle", "call", "building", "returned"
    daResult,     \* what analyzeDependencies returned
    daResolutions,\* what the onResolve callbacks did, per import specifier
    \* ---- getGitDiff (SpecGit)
    gitRepo,      \* the repository the git commands run in
    gitArgs,      \* maxBytes and baseBranch
    gitPc,        \* "idle", "call", "returned"
    gitResult,    \* what getGitDiff returned
    gitCalls,     \* the git commands getGitDiff itself has run, in order
    \* ---- getGitInfo of the share tool (SpecGitInfo)
    giRepo,       \* the repository of the project directory
    giPc,         \* "idle", "call", "returned"
    giResult,     \* what getGitInfo returned
    \* ---- binary detection when a file is stored (SpecBin)
    binName,      \* the file's name
    binBuffer,    \* the bytes read, as runs [byte, count]
    binPc,        \* "idle", "read", "stored"
    binEntry,     \* the entry stored in the file map
    \* ---- authenticate() and its callback listener (SpecAuth)
    server,       \* "idle", "starting", "listening", "closed", "failed", "crashed"
    runtime,      \* whether server.close() also closes idle connections
    conns,        \* the connections the listener has accepted and not yet lost
    promise,      \* the promise authenticate() returned
    authFile,     \* the content of AUTH_FILE
    timeout,      \* the 5-minute timer: "none", "armed", "fired", "cleared"
    closeEmitted, \* whether the server's 'close' event was emitted
    served,       \* the requests the listener's handler was run for
    \* ---- analyzeProjectDependencies (SpecProject)
    apInput,      \* changedFiles argument, state of the repository, its diff
    apPc,         \* "idle", "call", "analyzing", "returned"
    apFiles,      \* the ChangedFile records computed
    apEngineCalls,\* the entry point lists analyzeDependencies was called with
    apResult      \* the DependencyAnalysisResult returned

chunkVars == <<cfFiles, cfMax, cfChunks, cfPc, upCount, upNext, upPcts>>
relayVars == <<rMode, stream, rpos, buffer, calls, outcome, sawDone, rPc>>
shareVars == <<hPc, hFiles, hReader, authCalls, hSteps, chunks, upIdx, sent, replies, inflight, hResult>>
fileVars == <<platform, fs, rfCall, rfResult>>
depVars == <<daInput, resolvedFiles, npmPackages, workspacePackages, daQueue, daLoaded,
             daFailed, daPc, daResult, daResolutions>>
gitVars == <<gitRepo, gitArgs, gitPc, gitResult, gitCalls, giRepo, giPc, giResult>>

binVars == <<binName, binBuffer, binPc, binEntry>>

authVars == <<server, runtime, conns, promise, authFile, timeout, closeEmitted, served>>

apVars == <<apInput, apPc, apFiles, apEngineCalls, apResult>>

vars == <<chunkVars, relayVars, shareVars, notifs, fileVars, depVars, gitVars, binVars, authVars, apVars>>

None == "null"

\* the value of `outcome` while the function has neither returned nor thrown
Pending == [kind |-> "pending"]

----------------------------------------------------------------------------
(* Generic sequence helpers *)

Range(s) == {s[i] : i \in 1..Len(s)}

RECURSIVE SumSeq(_)
SumSeq(s) == IF s = <<>> THEN 0 ELSE Head(s) + SumSeq(Tail(s))

RECURSIVE Flatten(_)
Flatten(ss) == IF ss = <<>> THEN <<>> ELSE Head(ss) \o Flatten(Tail(ss))

\* all sequences over S of length 0..n
SeqsUpTo(S, n) == UNION {[1..k -> S] : k \in 0..n}

----------------------------------------------------------------------------
(* file-utils: sizes and chunking.  A FileMap is modelled as the sequence   *)
(* of its entries in Object.entries() order, each [path, size] with size    *)
(* the length of the entry's content string (getFileContent(file).length).  *)

MaxFiles == 3      \* keys of a file map given to chunkFiles
MaxSize == 3       \* largest content length drawn
MaxM == 3          \* largest maxChunkSize drawn

KeyOrder == <<"a", "b", "c", "d", "e">>

getFileSize(file) == file.size

calculateTotalSize(files) == SumSeq([i \in 1..Len(files) |-> getFileSize(files[i])])

\* Array.prototype.sort with comparator size(a) - size(b): stable, ascending
RECURSIVE InsertBySize(_, _)
InsertBySize(e, sorted) ==
    IF sorted = <<>> THEN <<e>>
    ELSE IF getFileSize(Head(sorted)) - getFileSize(e) <= 0
         THEN <<Head(sorted)>> \o InsertBySize(e, Tail(sorted))
         ELSE <<e>> \o sorted

\* the entries left in the order of Object.entries
SortAsInserted(entries) == entries

RECURSIVE SortBySize(_)
SortBySize(entries) ==
    IF entries = <<>> THEN <<>>
    ELSE InsertBySize(entries[Len(entries)], SortBySize(SubSeq(entries, 1, Len(entries) - 1)))

\* One iteration of the for-loop of chunkFiles on the loop state
\* st = [chunks, currentChunk, currentSize].
ChunkStepLoose(st, e, maxChunkSize) ==
    LET fileSize == getFileSize(e) IN
    IF fileSize > maxChunkSize
    THEN [chunks |-> st.chunks \o <<<<e>>>>, currentChunk |-> st.currentChunk,
          currentSize |-> st.currentSize]
    ELSE [chunks |-> st.chunks, currentChunk |-> Append(st.currentChunk, e),
          currentSize |-> st.currentSize + fileSize]

ChunkStep(st, e, maxChunkSize) ==
    LET fileSize == getFileSize(e) IN
    IF fileSize > maxChunkSize
    THEN \* the file gets its own chunk; the current chunk is saved first
         [chunks |-> (IF Len(st.currentChunk) > 0
                      THEN Append(st.chunks, st.currentChunk) ELSE st.chunks)
                     \o <<<<e>>>>,
          currentChunk |-> IF Len(st.currentChunk) > 0 THEN <<>> ELSE st.currentChunk,
          currentSize |-> IF Len(st.currentChunk) > 0 THEN 0 ELSE st.currentSize]
    ELSE IF st.currentSize + fileSize > maxChunkSize /\ Len(st.currentChunk) > 0
         THEN [chunks |-> Append(st.chunks, st.currentChunk),
               currentChunk |-> <<e>>,
               currentSize |-> fileSize]
         ELSE [chunks |-> st.chunks,
               currentChunk |-> Append(st.currentChunk, e),
               currentSize |-> st.currentSize + fileSize]

RECURSIVE ChunkLoop(_, _, _)
ChunkLoop(st, entries, maxChunkSize) ==
    IF entries = <<>> THEN st
    ELSE ChunkLoop(ChunkStep(st, Head(entries), maxChunkSize), Tail(entries), maxChunkSize)

chunkFiles(files, maxChunkSize) ==
    LET st == ChunkLoop([chunks |-> <<>>, currentChunk |-> <<>>, currentSize |-> 0],
                        SortBySize(files), maxChunkSize)
    IN IF Len(st.currentChunk) > 0 THEN Append(st.chunks, st.currentChunk) ELSE st.chunks

\* statistics that count the chunks as the files
getChunkStatsPerChunk(cs) ==
    LET chunkSizes == [i \in 1..Len(cs) |-> calculateTotalSize(cs[i])] IN
    [totalChunks |-> Len(cs),
     chunkSizes  |-> chunkSizes,
     totalFiles  |-> Len(cs),
     totalSize   |-> SumSeq(chunkSizes)]

getChunkStats(cs) ==
    LET chunkSizes == [i \in 1..Len(cs) |-> calculateTotalSize(cs[i])] IN
    [totalChunks |-> Len(cs),
     chunkSizes  |-> chunkSizes,
     totalFiles  |-> SumSeq([i \in 1..Len(cs) |-> Len(cs[i])]),
     totalSize   |-> SumSeq(chunkSizes)]

\* every file map with at most MaxFiles keys: the keys are distinct, the
\* insertion order is arbitrary
FileMaps ==
    {f \in SeqsUpTo([path : {KeyOrder[i] : i \in 1..MaxFiles}, size : 0..MaxSize], MaxFiles) :
        \A i, j \in 1..Len(f) : i # j => f[i].path # f[j].path}

ProgressIdle ==
    /\ upCount = 0
    /\ upNext = 0
    /\ upPcts = <<>>

ChunkInit ==
    /\ cfFiles \in FileMaps
    /\ cfMax \in 0..MaxM
    /\ cfChunks = <<>>
    /\ cfPc = "call"
    /\ ProgressIdle

ChunkCall ==
    /\ cfPc = "call"
    /\ cfChunks' = chunkFiles(cfFiles, cfMax)
    /\ cfPc' = "done"
    /\ UNCHANGED <<cfFiles, cfMax, upCount, upNext, upPcts, relayVars, shareVars, notifs, fileVars, depVars, gitVars, binVars, authVars, apVars>>

ChunkerIdle ==
    /\ cfFiles = <<>>
    /\ cfMax = 0
    /\ cfChunks = <<>>
    /\ cfPc = "idle"

ChunkIdle == ChunkerIdle /\ ProgressIdle


----------------------------------------------------------------------------
(* The event-stream loop shared by callShareWithSSE and callChunkedShare.   *)
(*                                                                          *)
(* The response text is a sequence of tokens: NL is "\n"; every other token *)
(* is a fragment [l |-> line, part |-> n] of a line, so that a read may end *)
(* between two lines, between the end of a line and its "\n", or inside a   *)
(* data line.  A line is an `event: <name>` line or a `data: <json>` line;  *)
(* an empty line is a "\n" with nothing before it.                          *)

MaxLines == 4      \* lines of a response stream

NL == [l |-> [t |-> "nl"], part |-> 0]

EventNames == {"progress", "complete", "error"}

EventLine(name) == [t |-> "event", name |-> name]

\* The JSON payloads of data lines. valid = FALSE is text JSON.parse rejects;
\* a field that is None is absent from the object (percentage: <<>>).
FullPayload ==
    [valid |-> TRUE, percentage |-> <<50>>, step |-> "x", message |-> "boom",
     inflightUrl |-> "https://x"]
EmptyPayload ==
    [valid |-> TRUE, percentage |-> <<>>, step |-> None, message |-> None,
     inflightUrl |-> None]
BadPayload ==
    [valid |-> FALSE, percentage |-> <<>>, step |-> None, message |-> None,
     inflightUrl |-> None]

Payloads == {FullPayload, EmptyPayload, BadPayload}

DataLine(json) == [t |-> "data", json |-> json]

BlankLine == [t |-> "blank"]

Lines == {EventLine(n) : n \in EventNames} \cup {DataLine(j) : j \in Payloads} \cup {BlankLine}

\* the tokens of one line followed by its "\n"
LineTokens(line) ==
    IF line.t = "blank" THEN <<NL>>
    ELSE IF line.t = "data" THEN <<[l |-> line, part |-> 1], [l |-> line, part |-> 2], NL>>
    ELSE <<[l |-> line, part |-> 1], NL>>

RECURSIVE TextOf(_)
TextOf(lines) == IF lines = <<>> THEN <<>> ELSE LineTokens(Head(lines)) \o TextOf(Tail(lines))

\* buffer.split("\n"): the token groups between the "\n"s; the last group is
\* what follows the last "\n"
RECURSIVE SplitNL(_, _, _)
SplitNL(tokens, cur, acc) ==
    IF tokens = <<>> THEN Append(acc, cur)
    ELSE IF Head(tokens) = NL THEN SplitNL(Tail(tokens), <<>>, Append(acc, cur))
    ELSE SplitNL(Tail(tokens), Append(cur, Head(tokens)), acc)

\* the line a complete group of fragments spells
LineOf(group) == IF group = <<>> THEN BlankLine ELSE group[1].l

\* JavaScript truthiness of an optional string, and `v || d`
Truthy(v) == v # None /\ v # ""

OrElse(v, d) == IF Truthy(v) THEN v ELSE d

\* data.percentage || 0
PctOrZero(data) == IF data.percentage = <<>> THEN 0 ELSE data.percentage[1]

MapPctUnmapped(mode, data) == PctOrZero(data)

\* the percentage handed to onProgress
MapPct(mode, data) ==
    LET serverPct == PctOrZero(data) IN
    IF mode = "chunked" THEN 45 + ((serverPct * 55) \div 100) ELSE serverPct

Resolved(data) == [kind |-> "resolved", inflightUrl |-> data.inflightUrl]
\* an Error; its message is the sequence of the parts it is concatenated from
Rejected(msg) == [kind |-> "rejected", message |-> msg]

\* catch (e): an Error whose message is not "Share failed" is skipped with
\* `continue`, anything else is thrown again
CatchRethrows(message) == message = "Share failed"

\* The body of `for (const line of lines)` on the loop state
\* ls = [currentEvent, calls, outcome]; nothing runs once the function has
\* returned or thrown.
LineStep(mode, ls, line) ==
    IF ls.outcome # Pending THEN ls
    ELSE IF line.t = "event" THEN [ls EXCEPT !.currentEvent = line.name]
    ELSE IF line.t = "data" THEN
        LET data == line.json IN
        IF ~data.valid
        THEN ls     \* JSON.parse threw a SyntaxError: continue
        ELSE IF ls.currentEvent = "progress" \/ (ls.currentEvent = "" /\ Truthy(data.step))
        THEN [ls EXCEPT !.calls = Append(@, [cb |-> "progress", pct |-> MapPct(mode, data),
                                             step |-> OrElse(data.step, "Processing...")]),
                        !.currentEvent = ""]
        ELSE IF ls.currentEvent = "complete"
        THEN [ls EXCEPT !.outcome = Resolved(data)]
        ELSE IF ls.currentEvent = "error"
        THEN LET msg == OrElse(data.message, "Share failed") IN
             IF CatchRethrows(msg)
             THEN [ls EXCEPT !.calls = Append(@, [cb |-> "error", msg |-> msg]),
                             !.outcome = Rejected(<<msg>>)]
             ELSE [ls EXCEPT !.calls = Append(@, [cb |-> "error", msg |-> msg])]
        ELSE [ls EXCEPT !.currentEvent = ""]
    ELSE ls

RECURSIVE LineLoop(_, _, _)
LineLoop(mode, ls, groups) ==
    IF groups = <<>> THEN ls
    ELSE LineLoop(mode, LineStep(mode, ls, LineOf(Head(groups))), Tail(groups))

\* One iteration of `while (true)` after reader.read() returned `value`:
\* append to the buffer, split, keep the incomplete last line, and handle the
\* complete lines with a currentEvent that starts empty.
ProcessRead(mode, st, value) ==
    LET groups == SplitNL(st.buffer \o value, <<>>, <<>>)
        ls     == LineLoop(mode, [currentEvent |-> "", calls |-> st.calls, outcome |-> Pending],
                           SubSeq(groups, 1, Len(groups) - 1))
    IN [buffer |-> groups[Len(groups)], calls |-> ls.calls, outcome |-> ls.outcome]

\* what is thrown after the loop when the stream ended
EndOutcomeSilent(mode) == [kind |-> "resolved", inflightUrl |-> None]

EndOutcome(mode) ==
    IF mode = "chunked"
    THEN Rejected(<<"Chunked share stream ended without completion">>)
    ELSE Rejected(<<"Share stream ended without completion">>)

\* The handler's callbacks: onProgress logs and calls sendProgress(percentage),
\* onError only logs.  The progress values a run of callbacks sends:
RECURSIVE ProgressValues(_)
ProgressValues(cs) ==
    IF cs = <<>> THEN <<>>
    ELSE IF Head(cs).cb = "progress" THEN <<Head(cs).pct>> \o ProgressValues(Tail(cs))
    ELSE ProgressValues(Tail(cs))

Streams == {TextOf(ls) : ls \in SeqsUpTo(Lines, MaxLines)}

RelayInit ==
    /\ rMode \in {"single", "chunked"}
    /\ stream \in Streams
    /\ rpos = 0
    /\ buffer = <<>>
    /\ calls = <<>>
    /\ outcome = Pending
    /\ sawDone = FALSE
    /\ rPc = "reading"
    /\ notifs = <<>>

\* the finalize stream of callChunkedShare carrying one progress event whose
\* percentage is any value of the server's 0..100 scale
ServerPcts == 0..100

PctPayload(p, step) ==
    [valid |-> TRUE, percentage |-> <<p>>, step |-> step, message |-> None,
     inflightUrl |-> None]

PctStreams ==
    {TextOf(<<EventLine("progress"), DataLine(PctPayload(p, step))>>) :
        p \in ServerPcts, step \in {"x", None}}

PctInit ==
    /\ rMode = "chunked"
    /\ stream \in PctStreams
    /\ rpos = 0
    /\ buffer = <<>>
    /\ calls = <<>>
    /\ outcome = Pending
    /\ sawDone = FALSE
    /\ rPc = "reading"
    /\ notifs = <<>>

RelayIdle ==
    /\ rMode = "single"
    /\ stream = <<>>
    /\ rpos = 0
    /\ buffer = <<>>
    /\ calls = <<>>
    /\ outcome = Pending
    /\ sawDone = FALSE
    /\ rPc = "idle"
    /\ notifs = <<>>

\* reader.read() delivers the next k tokens of the stream
RelayRead ==
    /\ rPc = "reading"
    /\ \E k \in 1..(Len(stream) - rpos) :
        LET st == ProcessRead(rMode, [buffer |-> buffer, calls |-> calls, outcome |-> Pending],
                              SubSeq(stream, rpos + 1, rpos + k))
        IN /\ rpos' = rpos + k
           /\ buffer' = st.buffer
           /\ calls' = st.calls
           /\ outcome' = st.outcome
           /\ rPc' = IF st.outcome # Pending THEN "done" ELSE "reading"
           /\ notifs' = notifs \o ProgressValues(SubSeq(st.calls, Len(calls) + 1, Len(st.calls)))
    /\ UNCHANGED <<rMode, stream, sawDone, chunkVars, shareVars, fileVars, depVars, gitVars, binVars, authVars, apVars>>

\* reader.read() returns done: the loop breaks and the function throws
RelayEnd ==
    /\ rPc = "reading"
    /\ rpos = Len(stream)
    /\ sawDone' = TRUE
    /\ outcome' = EndOutcome(rMode)
    /\ rPc' = "done"
    /\ UNCHANGED <<rMode, stream, rpos, buffer, calls, notifs, chunkVars, shareVars, fileVars, depVars, gitVars, binVars, authVars, apVars>>

----------------------------------------------------------------------------
(* The share tool handler, callShareWithSSE up to its stream, and           *)
(* callChunkedShare up to its finalize stream.  Each action runs the code   *)
(* from one await on the network (or on the user) to the next.              *)

MaxShareFiles == 3    \* keys of the file map a share assembles

MAX_CHUNK_SIZE == 2 * 1024 * 1024
CHUNK_THRESHOLD == 3 * 1024 * 1024

needsChunkedUploadFrom(files) == calculateTotalSize(files) >= CHUNK_THRESHOLD

needsChunkedUpload(files) == calculateTotalSize(files) > CHUNK_THRESHOLD

\* content lengths around the two limits
ShareSizes == {CHUNK_THRESHOLD \div 2, (CHUNK_THRESHOLD \div 2) + 1, MAX_CHUNK_SIZE + 1}

\* a file that shares a chunk with another one
SmallSize == MAX_CHUNK_SIZE \div 4

\* the file maps considered: every key has one of the sizes around the
\* limits, and the first key may also be a small file
ShareFileMaps ==
    UNION {{[i \in 1..n |-> [path |-> KeyOrder[i], size |-> sz[i]]] :
                sz \in {f \in [1..n -> ShareSizes \cup {SmallSize}] :
                            \A i \in 2..n : f[i] \in ShareSizes}} :
            n \in 0..MaxShareFiles}

\* the response streams a share is run against: one that closes at once, a
\* progress event and a complete event, a progress event alone, an error
\* event without a message, an error event with a message followed by a
\* complete event, and two progress events with given server percentages
TwoProgress(p, q) ==
    TextOf(<<EventLine("progress"), DataLine(PctPayload(p, "x")), BlankLine,
             EventLine("progress"), DataLine(PctPayload(q, "x")), BlankLine,
             EventLine("complete"), DataLine(FullPayload), BlankLine>>)

ShareStreams ==
    {TextOf(<<>>),
     TwoProgress(0, 50), TwoProgress(50, 100), TwoProgress(50, 0),
     TextOf(<<EventLine("progress"), DataLine(FullPayload), BlankLine,
              EventLine("complete"), DataLine(FullPayload), BlankLine>>),
     TextOf(<<EventLine("progress"), DataLine(FullPayload), BlankLine>>),
     TextOf(<<EventLine("error"), DataLine(EmptyPayload), BlankLine>>),
     TextOf(<<EventLine("error"), DataLine(FullPayload), BlankLine,
              EventLine("complete"), DataLine(FullPayload), BlankLine>>)}

\* the responses of the remote service: a success status, a non-success
\* status with a body, or no response at all (fetch rejects)
Bodies == {"quota exceeded", ""}
Responses == {[kind |-> "ok", body |-> ""]} \cup {[kind |-> "status", body |-> b] : b \in Bodies}
             \cup {[kind |-> "network", body |-> ""]}

\* response.ok
ResponseOkAlways(r) == TRUE

ResponseOk(r) == r.kind = "ok"

NumStr == <<"1", "2", "3", "4", "5", "6", "7", "8">>

HealthRequest == [kind |-> "health", chunkIndex |-> 0, totalChunks |-> 0]
ShareRequest == [kind |-> "share", chunkIndex |-> 0, totalChunks |-> 0]
InitRequest(stats) ==
    [kind |-> "init", chunkIndex |-> 0, totalChunks |-> stats.totalChunks,
     totalFiles |-> stats.totalFiles, totalSize |-> stats.totalSize]
UploadRequestOneBased(cs, i) ==
    [kind |-> "upload", chunkIndex |-> i + 1, totalChunks |-> Len(cs), files |-> cs[i + 1]]
\* chunk i (counted from 0) is cs[i + 1]
UploadRequest(cs, i) ==
    [kind |-> "upload", chunkIndex |-> i, totalChunks |-> Len(cs), files |-> cs[i + 1]]
FinalizeRequest == [kind |-> "finalize", chunkIndex |-> 0, totalChunks |-> 0]

\* i++ of the upload loop
StayOnChunk(i) == i

NextChunk(i) == i + 1

ChunkProgressFlat(i, n) == 10 + ((i \div n) * 30)

\* 10 + Math.floor((i / chunks.length) * 30)
ChunkProgress(i, n) == 10 + ((i * 30) \div n)

MaxChunks == 32      \* chunks.length in the upload loop taken by itself

\* the upload loop with every upload answered ok: chunks.length is any
\* count from 1 on
ProgressInit ==
    /\ upCount \in 1..MaxChunks
    /\ upNext = 0
    /\ upPcts = <<>>

\* one iteration: onProgress(chunkProgress, ...), the upload, i++
UploadProgress ==
    /\ upNext < upCount
    /\ upPcts' = Append(upPcts, ChunkProgress(upNext, upCount))
    /\ upNext' = NextChunk(upNext)
    /\ UNCHANGED <<upCount, cfFiles, cfMax, cfChunks, cfPc, relayVars, shareVars, notifs, fileVars, depVars, gitVars, binVars, authVars, apVars>>

ProgressCall(pct, step) == [cb |-> "progress", pct |-> pct, step |-> step]

\* the handler's catch blocks: { isError: true, text: `Error: ${message}` }
ErrorResult(message) == [isError |-> TRUE, text |-> <<"Error: ">> \o message]
SuccessResult(o, chunked) ==
    [isError |-> FALSE, inflightUrl |-> o.inflightUrl, chunkedUpload |-> chunked]
NoResult == [isError |-> FALSE, pending |-> TRUE]

\* what a failed fetch makes the function throw
FetchFailed == <<"fetch failed">>

ShareInit ==
    /\ hPc = "start"
    /\ hFiles = <<>>
    /\ hReader = None
    /\ authCalls = 0
    /\ hSteps = <<>>
    /\ chunks = <<>>
    /\ upIdx = 0
    /\ sent = <<>>
    /\ replies = <<>>
    /\ inflight = {}
    /\ hResult = NoResult

ShareIdle ==
    /\ hPc = "idle"
    /\ hFiles = <<>>
    /\ hReader = None
    /\ authCalls = 0
    /\ hSteps = <<>>
    /\ chunks = <<>>
    /\ upIdx = 0
    /\ sent = <<>>
    /\ replies = <<>>
    /\ inflight = {}
    /\ hResult = NoResult

Send(req) ==
    /\ sent' = Append(sent, req)
    /\ inflight' = inflight \cup {req}

Receive(r) ==
    /\ replies' = Append(replies, r)
    /\ inflight' = inflight \ {sent[Len(sent)]}

Return(result) ==
    /\ hResult' = result
    /\ hPc' = "returned"

\* one entry of the step log
Step(op, res) == [op |-> op, res |-> res]

\* Step 2: the message of the check that fails on gitInfo, <<>> when none
GitInfoErrorRepoOnly(git) ==
    IF git = "norepo" THEN <<"Not a git repository.">> ELSE <<>>

GitInfoError(git) ==
    IF git = "norepo" THEN <<"Not a git repository.">>
    ELSE IF git = "nodiff" THEN <<"No git diff found.">>
    ELSE <<>>

\* Step 3: which reader assembles the file map
ReaderForAnalysed(useStaticAnalysis, analysis) ==
    IF useStaticAnalysis /\ analysis # "throws" THEN "readSpecificFiles" ELSE "readProjectFiles"

ReaderFor(useStaticAnalysis, analysis) ==
    IF useStaticAnalysis /\ analysis = "files" THEN "readSpecificFiles" ELSE "readProjectFiles"

\* Step 4: if (!authData)
StartsAuthenticateAlways(stored) == TRUE

StartsAuthenticate(stored) == ~stored

\* sendProgress(0); existsSync(dir); sendProgress(2); fetch /health
HStart ==
    /\ hPc = "start"
    /\ \E dirExists \in BOOLEAN :
        IF dirExists
        THEN /\ notifs' = notifs \o <<0, 2>>
             /\ hSteps' = Append(hSteps, Step("existsSync", "true"))
             /\ Send(HealthRequest)
             /\ hPc' = "health"
             /\ UNCHANGED hResult
        ELSE /\ notifs' = Append(notifs, 0)
             /\ hSteps' = Append(hSteps, Step("existsSync", "false"))
             /\ Return(ErrorResult(<<"Directory not found">>))
             /\ UNCHANGED <<sent, inflight>>
    /\ UNCHANGED <<hFiles, hReader, authCalls, chunks, upIdx, replies, relayVars, chunkVars, fileVars, depVars, gitVars, binVars, authVars, apVars>>

\* shareApiHealthCheck returns response.ok, false when fetch rejects;
\* then getGitInfo: not a repository, no diff, or a diff
HHealthReply ==
    /\ hPc = "health"
    /\ \E r \in Responses, git \in {"norepo", "nodiff", "diff"} :
        /\ Receive(r)
        /\ IF ~ResponseOk(r)
           THEN /\ Return(ErrorResult(<<"Share API not running">>))
                /\ hSteps' = Append(hSteps, Step("health", "down"))
                /\ UNCHANGED notifs
           ELSE /\ notifs' = Append(notifs, 5)
                /\ hSteps' = hSteps \o <<Step("health", "ok"), Step("getGitInfo", git)>>
                /\ IF GitInfoError(git) # <<>> THEN Return(ErrorResult(GitInfoError(git)))
                   ELSE hPc' = "read" /\ UNCHANGED hResult
    /\ UNCHANGED <<hFiles, hReader, authCalls, chunks, upIdx, sent, relayVars, chunkVars, fileVars, depVars, gitVars, binVars, authVars, apVars>>

\* Step 3: read the files, with or without static analysis; Step 4:
\* getAuthData(), and authenticate() when nothing is stored
HRead ==
    /\ hPc = "read"
    /\ \E useStaticAnalysis \in BOOLEAN, analysis \in {"throws", "empty", "files"},
          files \in ShareFileMaps, stored \in BOOLEAN :
        /\ hFiles' = files
        /\ hReader' = ReaderFor(useStaticAnalysis, analysis)
        /\ hSteps' = hSteps
                \o (IF useStaticAnalysis THEN <<Step("analyzeProjectDependencies", analysis)>>
                    ELSE <<>>)
                \o <<Step(ReaderFor(useStaticAnalysis, analysis),
                           IF ReaderFor(useStaticAnalysis, analysis) = "readSpecificFiles"
                           THEN "includeEssentials" ELSE "walk"),
                      Step("getAuthData", IF stored THEN "found" ELSE "none")>>
                \o (IF StartsAuthenticate(stored) THEN <<Step("authenticate", "started")>>
                    ELSE <<>>)
        /\ IF ~StartsAuthenticate(stored)
           THEN /\ notifs' = notifs \o (IF useStaticAnalysis THEN <<8, 10>> ELSE <<8>>)
                /\ hPc' = "transfer"
                /\ UNCHANGED authCalls
           ELSE /\ notifs' = notifs \o (IF useStaticAnalysis THEN <<8, 10, 10>> ELSE <<8, 10>>)
                /\ authCalls' = authCalls + 1
                /\ hPc' = "auth"
    /\ UNCHANGED <<chunks, upIdx, sent, replies, inflight, hResult, relayVars, chunkVars, fileVars, depVars, gitVars, binVars, authVars, apVars>>

\* authenticate() resolved or rejected
HAuthDone ==
    /\ hPc = "auth"
    /\ \E ok \in BOOLEAN :
        IF ok THEN /\ hPc' = "transfer"
                   /\ hSteps' = Append(hSteps, Step("authenticate", "resolved"))
                   /\ UNCHANGED hResult
        ELSE /\ Return(ErrorResult(<<"Authentication failed - ", "timeout">>))
             /\ hSteps' = Append(hSteps, Step("authenticate", "rejected"))
    /\ UNCHANGED <<hFiles, hReader, authCalls, chunks, upIdx, sent, replies, inflight,
                   notifs, relayVars, chunkVars, fileVars, depVars, gitVars, binVars, authVars, apVars>>

\* Step 5: the chunked path up to the init request, or the single POST /share
HTransfer ==
    /\ hPc = "transfer"
    /\ IF needsChunkedUpload(hFiles)
       THEN LET cs == chunkFiles(hFiles, MAX_CHUNK_SIZE) IN
            /\ chunks' = cs
            /\ calls' = calls \o <<ProgressCall(5, "Splitting"), ProgressCall(8, "Initializing")>>
            /\ notifs' = notifs \o <<12, 5, 8>>
            /\ rMode' = "chunked"
            /\ hSteps' = Append(hSteps, Step("transfer", "callChunkedShare"))
            /\ Send(InitRequest(getChunkStats(cs)))
            /\ hPc' = "init"
       ELSE /\ notifs' = Append(notifs, 12)
            /\ rMode' = "single"
            /\ hSteps' = Append(hSteps, Step("transfer", "callShareWithSSE"))
            /\ Send(ShareRequest)
            /\ hPc' = "share"
            /\ UNCHANGED <<chunks, calls>>
    /\ UNCHANGED <<hFiles, hReader, authCalls, upIdx, replies, hResult,
                   stream, rpos, buffer, outcome, sawDone, rPc, chunkVars, fileVars, depVars, gitVars, binVars, authVars, apVars>>

\* the stream of a successful response starts to be read
StartStream ==
    /\ \E text \in ShareStreams : stream' = text
    /\ rPc' = "reading"
    /\ hPc' = "stream"
    /\ UNCHANGED <<rpos, buffer, outcome, sawDone, hResult>>

Throw(message) ==
    /\ outcome' = Rejected(message)
    /\ Return(ErrorResult(message))
    /\ UNCHANGED <<stream, rpos, buffer, sawDone, rPc>>

\* callShareWithSSE: the response of POST /share
HShareReply ==
    /\ hPc = "share"
    /\ \E r \in Responses :
        /\ Receive(r)
        /\ IF r.kind = "network" THEN Throw(FetchFailed)
           ELSE IF ~ResponseOk(r)
           THEN Throw(<<"Share failed (status): ", OrElse(r.body, "Empty response")>>)
           ELSE StartStream
    /\ UNCHANGED <<hSteps, hFiles, hReader, authCalls, chunks, upIdx, sent, notifs, rMode, calls, chunkVars, fileVars, depVars, gitVars, binVars, authVars, apVars>>

\* callChunkedShare: the response of /share/chunked/init
HInitReply ==
    /\ hPc = "init"
    /\ \E r \in Responses :
        /\ Receive(r)
        /\ IF r.kind = "network" THEN Throw(FetchFailed)
           ELSE IF ~ResponseOk(r)
           THEN Throw(<<"Failed to initialize chunked upload: ", r.body>>)
           ELSE /\ hPc' = "upload"
                /\ UNCHANGED <<outcome, hResult, stream, rpos, buffer, sawDone, rPc>>
    /\ upIdx' = 0
    /\ UNCHANGED <<hSteps, hFiles, hReader, authCalls, chunks, sent, notifs, rMode, calls, chunkVars, fileVars, depVars, gitVars, binVars, authVars, apVars>>

\* the loop head: the next chunk's upload request, or after the last chunk
\* the finalize request
HUploadSend ==
    /\ hPc = "upload"
    /\ IF upIdx < Len(chunks)
       THEN LET pct == ChunkProgress(upIdx, Len(chunks)) IN
            /\ calls' = Append(calls, ProgressCall(pct, "Uploading chunk"))
            /\ notifs' = Append(notifs, pct)
            /\ Send(UploadRequest(chunks, upIdx))
            /\ hPc' = "uploading"
       ELSE /\ calls' = Append(calls, ProgressCall(42, "Finalizing"))
            /\ notifs' = Append(notifs, 42)
            /\ Send(FinalizeRequest)
            /\ hPc' = "finalize"
    /\ UNCHANGED <<hSteps, hFiles, hReader, authCalls, chunks, upIdx, replies, hResult,
                   rMode, stream, rpos, buffer, outcome, sawDone, rPc, chunkVars, fileVars, depVars, gitVars, binVars, authVars, apVars>>

\* the response of /share/chunked/{sessionId}/upload
HUploadReply ==
    /\ hPc = "uploading"
    /\ \E r \in Responses :
        /\ Receive(r)
        /\ IF r.kind = "network" THEN Throw(FetchFailed) /\ UNCHANGED upIdx
           ELSE IF ~ResponseOk(r)
           THEN /\ Throw(<<"Failed to upload chunk ", NumStr[upIdx + 1], ": ", r.body>>)
                /\ UNCHANGED upIdx
           ELSE /\ upIdx' = NextChunk(upIdx)
                /\ hPc' = "upload"
                /\ UNCHANGED <<outcome, hResult, stream, rpos, buffer, sawDone, rPc>>
    /\ UNCHANGED <<hSteps, hFiles, hReader, authCalls, chunks, sent, notifs, rMode, calls, chunkVars, fileVars, depVars, gitVars, binVars, authVars, apVars>>

\* the response of /share/chunked/{sessionId}/finalize
HFinalizeReply ==
    /\ hPc = "finalize"
    /\ \E r \in Responses :
        /\ Receive(r)
        /\ IF r.kind = "network" THEN Throw(FetchFailed)
           ELSE IF ~ResponseOk(r)
           THEN Throw(<<"Failed to finalize chunked upload: ", r.body>>)
           ELSE StartStream
    /\ UNCHANGED <<hSteps, hFiles, hReader, authCalls, chunks, upIdx, sent, notifs, rMode, calls, chunkVars, fileVars, depVars, gitVars, binVars, authVars, apVars>>

\* callShareWithSSE / callChunkedShare returned or threw out of the stream loop
HReturn ==
    /\ hPc = "stream"
    /\ rPc = "done"
    /\ IF outcome.kind = "resolved"
       THEN /\ notifs' = Append(notifs, 100)
            /\ Return(SuccessResult(outcome, rMode = "chunked"))
       ELSE /\ Return(ErrorResult(outcome.message))
            /\ UNCHANGED notifs
    /\ UNCHANGED <<hSteps, hFiles, hReader, authCalls, chunks, upIdx, sent, replies, inflight,
                   relayVars, chunkVars, fileVars, depVars, gitVars, binVars, authVars, apVars>>


----------------------------------------------------------------------------
(* file-utils: shouldExclude, readProjectFiles, readSpecificFiles.          *)
(* A path string is the sequence of its characters; a node of the project   *)
(* directory is the sequence of the names leading to it from the root.      *)

MaxFsEntries == 2      \* project files present besides an essential config file

StartsWith(s, p) == Len(s) >= Len(p) /\ SubSeq(s, 1, Len(p)) = p

EndsWith(s, p) == Len(s) >= Len(p) /\ SubSeq(s, Len(s) - Len(p) + 1, Len(s)) = p

Contains(s, p) == \E i \in 1..(Len(s) - Len(p) + 1) : SubSeq(s, i, i + Len(p) - 1) = p

\* String.prototype.split on a set of one-character separators
RECURSIVE Split(_, _)
Split(s, seps) ==
    IF \A i \in 1..Len(s) : s[i] \notin seps THEN <<s>>
    ELSE LET i == CHOOSE k \in 1..Len(s) :
                      s[k] \in seps /\ \A j \in 1..(k - 1) : s[j] \notin seps
         IN  <<SubSeq(s, 1, i - 1)>> \o Split(SubSeq(s, i + 1, Len(s)), seps)

RECURSIVE Join(_, _)
Join(names, sep) ==
    IF names = <<>> THEN <<>>
    ELSE IF Len(names) = 1 THEN names[1]
    ELSE names[1] \o <<sep>> \o Join(Tail(names), sep)

\* the regular expressions of the exclusion lists, by shape
Exact(t) == [kind |-> "exact", text |-> t]           \* /^t$/
DirAnywhere(t) == [kind |-> "dir", text |-> t]       \* /(^|\/)t\//
DirAtRoot(t) == [kind |-> "rootdir", text |-> t]     \* /^t\//
Suffix(t) == [kind |-> "suffix", text |-> t]         \* /t$/
Prefix(t) == [kind |-> "prefix", text |-> t]         \* /^t/
Anywhere(t) == [kind |-> "anywhere", text |-> t]     \* /t/

\* RegExp.prototype.test
test(pattern, s) ==
    CASE pattern.kind = "exact" -> s = pattern.text
      [] pattern.kind = "dir" ->
            \E i \in 1..Len(s) :
                /\ StartsWith(SubSeq(s, i, Len(s)), pattern.text \o <<"/">>)
                /\ (i = 1 \/ s[i - 1] = "/")
      [] pattern.kind = "rootdir" -> StartsWith(s, pattern.text \o <<"/">>)
      [] pattern.kind = "suffix" -> EndsWith(s, pattern.text)
      [] pattern.kind = "prefix" -> StartsWith(s, pattern.text)
      [] pattern.kind = "anywhere" -> Contains(s, pattern.text)

EXCLUDE_PATTERNS == <<
    Exact(<<".", "g", "i", "t">>),
    DirAnywhere(<<".", "g", "i", "t">>),
    DirAnywhere(<<"n", "o", "d", "e", "_", "m", "o", "d", "u", "l", "e", "s">>),
    DirAnywhere(<<".", "n", "e", "x", "t">>),
    DirAnywhere(<<"d", "i", "s", "t">>),
    DirAnywhere(<<"b", "u", "i", "l", "d">>),
    DirAnywhere(<<"o", "u", "t">>),
    DirAnywhere(<<".", "o", "u", "t", "p", "u", "t">>),
    DirAnywhere(<<".", "s", "v", "e", "l", "t", "e", "-", "k", "i", "t">>),
    DirAnywhere(<<".", "v", "e", "r", "c", "e", "l">>),
    DirAnywhere(<<".", "t", "u", "r", "b", "o">>),
    DirAnywhere(<<".", "c", "a", "c", "h", "e">>),
    DirAnywhere(<<".", "p", "a", "r", "c", "e", "l", "-", "c", "a", "c", "h", "e">>),
    DirAnywhere(<<".", "v", "i", "t", "e">>),
    DirAnywhere(<<".", "n", "u", "x", "t">>),
    DirAnywhere(<<".", "e", "x", "p", "o">>),
    Suffix(<<"p", "a", "c", "k", "a", "g", "e", "-", "l", "o", "c", "k", ".", "j", "s", "o", "n">>),
    Suffix(<<"y", "a", "r", "n", ".", "l", "o", "c", "k">>),
    Suffix(<<"p", "n", "p", "m", "-", "l", "o", "c", "k", ".", "y", "a", "m", "l">>),
    Suffix(<<"b", "u", "n", ".", "l", "o", "c", "k", "b">>),
    Suffix(<<".", "D", "S", "_", "S", "t", "o", "r", "e">>),
    Suffix(<<".", "l", "o", "g">>),
    Suffix(<<"T", "h", "u", "m", "b", "s", ".", "d", "b">>),
    DirAnywhere(<<"c", "o", "v", "e", "r", "a", "g", "e">>),
    DirAnywhere(<<".", "n", "y", "c", "_", "o", "u", "t", "p", "u", "t">>)
>>

\* the exclusion list of the stand-alone server (src/local-mcp/index.ts)
LEGACY_EXCLUDE_PATTERNS == <<
    DirAtRoot(<<".", "g", "i", "t">>),
    DirAtRoot(<<"n", "o", "d", "e", "_", "m", "o", "d", "u", "l", "e", "s">>),
    DirAtRoot(<<".", "n", "e", "x", "t">>),
    DirAtRoot(<<"d", "i", "s", "t">>),
    DirAtRoot(<<"b", "u", "i", "l", "d">>),
    DirAtRoot(<<"o", "u", "t">>),
    DirAtRoot(<<".", "v", "e", "r", "c", "e", "l">>),
    DirAtRoot(<<".", "t", "u", "r", "b", "o">>),
    DirAtRoot(<<".", "c", "a", "c", "h", "e">>),
    Suffix(<<"p", "a", "c", "k", "a", "g", "e", "-", "l", "o", "c", "k", ".", "j", "s", "o", "n">>),
    Suffix(<<"y", "a", "r", "n", ".", "l", "o", "c", "k">>),
    Suffix(<<"p", "n", "p", "m", "-", "l", "o", "c", "k", ".", "y", "a", "m", "l">>),
    Suffix(<<"b", "u", "n", ".", "l", "o", "c", "k", "b">>),
    Suffix(<<".", "D", "S", "_", "S", "t", "o", "r", "e">>),
    Suffix(<<".", "l", "o", "g">>)
>>

ENV_PATTERNS == <<
    Prefix(<<".", "e", "n", "v">>),
    Anywhere(<<".", "e", "n", "v", ".">>)
>>

Excluded(patterns, filePath) ==
    \/ \E i \in 1..Len(patterns) : test(patterns[i], filePath)
    \/ LET segments == Split(filePath, {"/"})
           fileName == segments[Len(segments)]        \* split('/').pop() || ''
       IN  \E i \in 1..Len(ENV_PATTERNS) : test(ENV_PATTERNS[i], fileName)

shouldExclude(filePath) == Excluded(EXCLUDE_PATTERNS, filePath)

shouldExcludeLegacy(filePath) == Excluded(LEGACY_EXCLUDE_PATTERNS, filePath)

ESSENTIAL_CONFIG_FILES == <<
    <<"p", "a", "c", "k", "a", "g", "e", ".", "j", "s", "o", "n">>,
    <<"t", "s", "c", "o", "n", "f", "i", "g", ".", "j", "s", "o", "n">>,
    <<"j", "s", "c", "o", "n", "f", "i", "g", ".", "j", "s", "o", "n">>,
    <<"v", "i", "t", "e", ".", "c", "o", "n", "f", "i", "g", ".", "t", "s">>,
    <<"v", "i", "t", "e", ".", "c", "o", "n", "f", "i", "g", ".", "j", "s">>,
    <<"v", "i", "t", "e", ".", "c", "o", "n", "f", "i", "g", ".", "m", "j", "s">>,
    <<"n", "e", "x", "t", ".", "c", "o", "n", "f", "i", "g", ".", "j", "s">>,
    <<"n", "e", "x", "t", ".", "c", "o", "n", "f", "i", "g", ".", "m", "j", "s">>,
    <<"n", "e", "x", "t", ".", "c", "o", "n", "f", "i", "g", ".", "t", "s">>,
    <<"t", "a", "i", "l", "w", "i", "n", "d", ".", "c", "o", "n", "f", "i", "g", ".", "j", "s">>,
    <<"t", "a", "i", "l", "w", "i", "n", "d", ".", "c", "o", "n", "f", "i", "g", ".", "t", "s">>,
    <<"t", "a", "i", "l", "w", "i", "n", "d", ".", "c", "o", "n", "f", "i", "g", ".", "m", "j", "s">>,
    <<"p", "o", "s", "t", "c", "s", "s", ".", "c", "o", "n", "f", "i", "g", ".", "j", "s">>,
    <<"p", "o", "s", "t", "c", "s", "s", ".", "c", "o", "n", "f", "i", "g", ".", "m", "j", "s">>,
    <<"p", "o", "s", "t", "c", "s", "s", ".", "c", "o", "n", "f", "i", "g", ".", "c", "j", "s">>,
    <<".", "p", "r", "e", "t", "t", "i", "e", "r", "r", "c">>,
    <<".", "p", "r", "e", "t", "t", "i", "e", "r", "r", "c", ".", "j", "s", "o", "n">>,
    <<".", "e", "s", "l", "i", "n", "t", "r", "c", ".", "j", "s", "o", "n">>,
    <<"e", "s", "l", "i", "n", "t", ".", "c", "o", "n", "f", "i", "g", ".", "j", "s">>,
    <<"i", "n", "d", "e", "x", ".", "h", "t", "m", "l">>
>>

\* path.sep, and the characters path.join / path.basename take as separators
PathSep == IF platform = "win32" THEN "\\" ELSE "/"

Separators == IF platform = "win32" THEN {"/", "\\"} ELSE {"/"}

\* path.relative(rootDir, fullPath) for a node below rootDir
relative(node) == Join(node, PathSep)

\* path.basename
basename(p) ==
    LET segments == Split(p, Separators)
    IN  segments[Len(segments)]

\* path.join(rootDir, relativePath), as the node it designates below rootDir
RECURSIVE Normalize(_, _)
Normalize(segments, node) ==
    IF segments = <<>> THEN node
    ELSE LET h == Head(segments)
         IN  IF h = <<>> \/ h = <<".">> THEN Normalize(Tail(segments), node)
             ELSE IF h = <<".", ".">> /\ node # <<>> /\ node[Len(node)] # <<".", ".">>
                  THEN Normalize(Tail(segments), SubSeq(node, 1, Len(node) - 1))
             ELSE Normalize(Tail(segments), Append(node, h))

Resolve(p) == Normalize(Split(p, Separators), <<>>)

\* what is at a node: "file" (readable regular file), "unreadable" (regular
\* file whose read throws), "dir", or "none"
NodeKind(node) ==
    IF node \in DOMAIN fs THEN fs[node]
    ELSE IF \E q \in DOMAIN fs : Len(q) > Len(node) /\ SubSeq(q, 1, Len(node)) = node
         THEN "dir"
         ELSE IF node = <<>> THEN "dir" ELSE "none"

\* fs.statSync(path.join(rootDir, p)): a trailing separator demands a directory
Stat(p) ==
    LET kind == NodeKind(Resolve(p))
    IN  IF p # <<>> /\ p[Len(p)] \in Separators /\ kind # "dir" THEN "none" ELSE kind

existsSync(p) == Stat(p) # "none"

readdirSync(dir) ==
    { q[Len(dir) + 1] :
        q \in {r \in DOMAIN fs : Len(r) > Len(dir) /\ SubSeq(r, 1, Len(dir)) = dir} }

\* walkDir: the nodes whose content ends up in `files`
RECURSIVE walkDir(_, _)
walkDir(dir, legacy) ==
    UNION { LET fullPath == Append(dir, entry)
                relativePath == relative(fullPath)
                skip == IF legacy THEN shouldExcludeLegacy(relativePath)
                                  ELSE shouldExclude(relativePath)
                kind == NodeKind(fullPath)
            IN  IF skip THEN {}
                ELSE IF kind = "dir" THEN walkDir(fullPath, legacy)
                ELSE IF kind = "file" THEN {fullPath}
                ELSE {}
          : entry \in readdirSync(dir) }

FileMapOf(nodes) ==
    [key \in {relative(n) : n \in nodes} |-> CHOOSE n \in nodes : relative(n) = key]

readProjectFiles == FileMapOf(walkDir(<<>>, FALSE))

readProjectFilesLegacy == FileMapOf(walkDir(<<>>, TRUE))

PathsToReadAsGiven(filePaths, includeEssentials) == filePaths

PathsToRead(filePaths, includeEssentials) ==
    filePaths \cup
        (IF includeEssentials
         THEN {ESSENTIAL_CONFIG_FILES[i] : i \in
                 {j \in 1..Len(ESSENTIAL_CONFIG_FILES) : existsSync(ESSENTIAL_CONFIG_FILES[j])}}
         ELSE {})

\* the try block of the loop for one path: statSync throws when nothing is
\* there, a directory is passed over, readFileSync throws on a file that
\* cannot be read, and a file that was read is stored
TryRead(relativePath) ==
    LET kind == Stat(relativePath)
    IN  IF kind = "none" THEN "threw"
        ELSE IF kind = "dir" THEN "skipped"
        ELSE IF kind = "unreadable" THEN "threw"
        ELSE "stored"

\* the catch of the loop: notFoundCount++, the path is skipped
Uncaught(attempt) == attempt

Caught(attempt) == IF attempt = "threw" THEN "skipped" ELSE attempt

\* whether an exception leaves readSpecificFiles
readSpecificFilesThrows(filePaths, includeEssentials) ==
    \E relativePath \in PathsToRead(filePaths, includeEssentials) :
        Caught(TryRead(relativePath)) = "threw" /\ ~shouldExclude(relativePath)

readSpecificFiles(filePaths, includeEssentials) ==
    LET pathsToRead == PathsToRead(filePaths, includeEssentials)
        kept == {relativePath \in pathsToRead :
                    /\ ~shouldExclude(relativePath)
                    /\ Caught(TryRead(relativePath)) = "stored"}
    IN  [relativePath \in kept |-> Resolve(relativePath)]

\* the project files a directory may hold
ProjectNodes == {
    <<<<".", "e", "n", "v">>>>,
    <<<<".", "e", "n", "v", ".", "p", "r", "o", "d", "u", "c", "t", "i", "o", "n">>>>,
    <<<<"s", "e", "c", "r", "e", "t", "s">>, <<".", "e", "n", "v">>>>,
    <<<<"s", "e", "c", "r", "e", "t", "s">>, <<"a", "p", "p", ".", "e", "n", "v", ".", "l", "o", "c", "a", "l">>>>,
    <<<<"s", "e", "c", "r", "e", "t", "s">>, <<"a", ".", "t", "s">>>>,
    <<<<"n", "o", "d", "e", "_", "m", "o", "d", "u", "l", "e", "s">>, <<"a", ".", "t", "s">>>>
}

EssentialNodes == {<<ESSENTIAL_CONFIG_FILES[i]>> : i \in 1..Len(ESSENTIAL_CONFIG_FILES)}

EmptyDir == [node \in {} |-> "file"]

\* the directory contents considered: at most MaxFsEntries project files,
\* and at most one essential config name, present as a readable file, as an
\* unreadable file or as a directory
FileTrees ==
    { project @@ essential :
        project \in { [node \in S |-> "file"] :
                        S \in {X \in SUBSET ProjectNodes : Cardinality(X) <= MaxFsEntries} },
        essential \in {EmptyDir} \cup
                      { e :> kind : e \in EssentialNodes, kind \in {"file", "unreadable", "dir"} } }

\* the filePaths lists considered (readSpecificFiles turns the list into a Set)
RequestLists == {
    {},
    {<<"s", "e", "c", "r", "e", "t", "s", "/", "a", ".", "t", "s">>},
    {<<".", "e", "n", "v">>, <<"s", "e", "c", "r", "e", "t", "s", "/", ".", "e", "n", "v">>},
    {<<".", "/", ".", "e", "n", "v">>, <<"s", "e", "c", "r", "e", "t", "s", "/", "a", "p", "p", ".", "e", "n", "v", ".", "l", "o", "c", "a", "l">>, <<"m", "i", "s", "s", "i", "n", "g", ".", "t", "s">>},
    {<<"s", "e", "c", "r", "e", "t", "s", "\\", ".", "e", "n", "v">>, <<"s", "e", "c", "r", "e", "t", "s", "/">>, <<".", "/", "s", "e", "c", "r", "e", "t", "s", "/", "a", ".", "t", "s">>},
    {<<"p", "a", "c", "k", "a", "g", "e", ".", "j", "s", "o", "n">>, <<".", "e", "n", "v", ".", "p", "r", "o", "d", "u", "c", "t", "i", "o", "n">>, <<"n", "o", "d", "e", "_", "m", "o", "d", "u", "l", "e", "s", "/", "a", ".", "t", "s">>}
}

NoCall == [op |-> "idle"]

FilesInit ==
    /\ platform \in {"posix", "win32"}
    /\ fs \in FileTrees
    /\ rfCall = NoCall
    /\ rfResult = EmptyDir

FilesIdle ==
    /\ platform = "posix"
    /\ fs = EmptyDir
    /\ rfCall = NoCall
    /\ rfResult = EmptyDir

ReadProjectFiles ==
    /\ rfCall = NoCall
    /\ rfCall' = [op |-> "readProjectFiles", legacy |-> FALSE]
    /\ rfResult' = readProjectFiles
    /\ UNCHANGED <<platform, fs, chunkVars, relayVars, shareVars, notifs, depVars, gitVars, binVars, authVars, apVars>>

ReadProjectFilesLegacy ==
    /\ rfCall = NoCall
    /\ rfCall' = [op |-> "readProjectFiles", legacy |-> TRUE]
    /\ rfResult' = readProjectFilesLegacy
    /\ UNCHANGED <<platform, fs, chunkVars, relayVars, shareVars, notifs, depVars, gitVars, binVars, authVars, apVars>>

ReadSpecificFiles ==
    /\ rfCall = NoCall
    /\ \E filePaths \in RequestLists, includeEssentials \in BOOLEAN :
      \E threw \in {readSpecificFilesThrows(filePaths, includeEssentials)} :
        /\ rfCall' = [op |-> "readSpecificFiles", filePaths |-> filePaths,
                      includeEssentials |-> includeEssentials, threw |-> threw]
        /\ rfResult' = IF threw THEN EmptyDir
                       ELSE readSpecificFiles(filePaths, includeEssentials)
    /\ UNCHANGED <<platform, fs, chunkVars, relayVars, shareVars, notifs, depVars, gitVars, binVars, authVars, apVars>>

----------------------------------------------------------------------------
(* dependency-analyzer: createAnalysisPlugin and analyzeDependencies.  The   *)
(* resolution engine (esbuild) loads the entry points, hands every file it   *)
(* loads to onLoad and every import specifier of a loaded file to the        *)
(* onResolve callbacks in their registration order, and may fail at any      *)
(* point.                                                                    *)

MaxEntries == 2        \* length of the entryPoints list

\* the characters of the modelled paths in UTF-16 code unit order
CodeUnitOrder == <<"-", ".", "/", "@", "A", "B", "C", "D", "E", "F", "G", "H", "I", "J", "K", "L", "M", "N", "O", "P", "Q", "R", "S", "T", "U", "V", "W", "X", "Y", "Z", "_", "a", "b", "c", "d", "e", "f", "g", "h", "i", "j", "k", "l", "m", "n", "o", "p", "q", "r", "s", "t", "u", "v", "w", "x", "y", "z">>

CodeUnit(c) == CHOOSE i \in 1..Len(CodeUnitOrder) : CodeUnitOrder[i] = c

\* a < b as Array.prototype.sort() compares strings
RECURSIVE StringLess(_, _)
StringLess(a, b) ==
    IF b = <<>> THEN FALSE
    ELSE IF a = <<>> THEN TRUE
    ELSE IF a[1] # b[1] THEN CodeUnit(a[1]) < CodeUnit(b[1])
    ELSE StringLess(Tail(a), Tail(b))

\* Array.from(set).sort()
RECURSIVE SortStrings(_)
SortStrings(set) ==
    IF set = {} THEN <<>>
    ELSE LET least == CHOOSE a \in set : \A b \in set \ {a} : StringLess(a, b)
         IN  <<least>> \o SortStrings(set \ {least})

\* path.dirname of a node
dirname(node) == SubSeq(node, 1, Len(node) - 1)

\* path.resolve(from, p) for a root-relative or importer-relative p
ResolveFrom(from, p) == Normalize(Split(p, Separators), from)

\* String.prototype.replace(alias, target) on a string that starts with alias
ReplacePrefix(s, alias, target) == target \o SubSeq(s, Len(alias) + 1, Len(s))

\* fullPath + ext
WithExt(node, ext) ==
    IF node = <<>> THEN <<ext>>
    ELSE SubSeq(node, 1, Len(node) - 1) \o <<node[Len(node)] \o ext>>

Extensions == <<<<".", "t", "s">>, <<".", "t", "s", "x">>, <<".", "j", "s">>, <<".", "j", "s", "x">>, <<>>>>

\* the paths tried for fullPath, in order: fullPath + ext, then the index
\* file `index${ext || ".ts"}` inside fullPath, for each extension
Candidates(fullPath) ==
    Flatten([i \in 1..Len(Extensions) |->
        <<WithExt(fullPath, Extensions[i]),
          Append(fullPath, <<"i", "n", "d", "e", "x">> \o
                 (IF Extensions[i] = <<>> THEN <<".", "t", "s">> ELSE Extensions[i]))>>])

External == [external |-> TRUE]

\* "Try to resolve with extensions": the first candidate that exists
ResolveLocal(fullPath) ==
    LET cands == Candidates(fullPath)
        hits == {i \in 1..Len(cands) : NodeKind(cands[i]) # "none"}
    IN  IF hits = {} THEN External
        ELSE [external |-> FALSE,
              path |-> cands[CHOOSE i \in hits : \A j \in hits : i <= j]]

\* the onResolve filters
MatchesAlias(p, alias) == StartsWith(p, alias)                       \* ^alias
IsScoped(p) ==                                                       \* /^@[^/]+\//
    /\ Len(p) >= 3
    /\ p[1] = "@"
    /\ \E i \in 3..Len(p) : p[i] = "/" /\ \A j \in 2..(i - 1) : p[j] # "/"
IsBare(p) == p # <<>> /\ p[1] \notin {".", "@", "/"}                 \* /^[^.@/]/
IsRelative(p) == p # <<>> /\ p[1] = "."                              \* /^\./

\* onLoad's filter /\.(ts|tsx|js|jsx)$/
IsScript(p) ==
    \E ext \in {<<".", "t", "s">>, <<".", "t", "s", "x">>, <<".", "j", "s">>, <<".", "j", "s", "x">>} : EndsWith(p, ext)

\* what an onResolve callback did: the bucket that handled the specifier,
\* the path esbuild goes on to load (if not external), and the additions to
\* resolvedFiles, npmPackages and workspacePackages
Resolution(bucket, r) ==
    [bucket |-> bucket, external |-> r.external,
     path |-> IF r.external THEN <<>> ELSE r.path,
     files |-> IF r.external THEN {} ELSE {relative(r.path)},
     npm |-> {}, ws |-> {}]

AliasResolve(p, alias, target) ==
    Resolution("alias", ResolveLocal(ResolveFrom(<<>>, ReplacePrefix(p, alias, target))))

Default == <<"d", "e", "f", "a", "u", "l", "t">>

\* args.path.slice(packageName.length + 1) || "default"
Subpath(p, packageName) ==
    LET rest == SubSeq(p, Len(packageName) + 2, Len(p))
    IN  IF rest = <<>> THEN Default ELSE rest

ScopedResolve(p, monorepo) ==
    LET segments == Split(p, {"/"})
        packageName == Join(SubSeq(segments, 1, 2), "/")
        pkgName == segments[2]
        inRoot == <<<<"p", "a", "c", "k", "a", "g", "e", "s">>, pkgName>>
        above == <<<<".", ".">>, <<"p", "a", "c", "k", "a", "g", "e", "s">>, pkgName>>
    IN  IF monorepo
        THEN [bucket |-> "scoped", external |-> TRUE, path |-> <<>>, files |-> {}, npm |-> {},
              ws |-> {[name |-> packageName, resolvedPath |-> relative(above), import |-> p]}]
        ELSE IF NodeKind(inRoot) # "none"
        THEN [bucket |-> "scoped", external |-> TRUE, path |-> <<>>, files |-> {}, npm |-> {},
              ws |-> {[name |-> packageName, resolvedPath |-> relative(inRoot), import |-> p]}]
        ELSE [bucket |-> "scoped", external |-> TRUE, path |-> <<>>, files |-> {},
              npm |-> {<<packageName, Subpath(p, packageName)>>}, ws |-> {}]

BareResolve(p) ==
    LET packageName == Split(p, {"/"})[1]
    IN  [bucket |-> "bare", external |-> TRUE, path |-> <<>>, files |-> {},
         npm |-> {<<packageName, Subpath(p, packageName)>>}, ws |-> {}]

RelativeResolve(importer, p) ==
    Resolution("relative", ResolveLocal(ResolveFrom(dirname(importer), p)))

\* no callback matches: the engine resolves the path itself
DefaultResolve(p) ==
    LET node == ResolveFrom(<<>>, p)
    IN  [bucket |-> "engine", external |-> NodeKind(node) # "file", path |-> node,
         files |-> {}, npm |-> {}, ws |-> {}]

\* the onResolve callbacks in registration order; the first one whose filter
\* matches returns a result, so no later one runs
OnResolve(importer, p, pathAliases, monorepo) ==
    LET hits == {i \in 1..Len(pathAliases) : MatchesAlias(p, pathAliases[i][1])}
    IN  IF hits # {}
        THEN LET i == CHOOSE k \in hits : \A j \in hits : k <= j
             IN  AliasResolve(p, pathAliases[i][1], pathAliases[i][2])
        ELSE IF IsScoped(p) THEN ScopedResolve(p, monorepo)
        ELSE IF IsBare(p) THEN BareResolve(p)
        ELSE IF IsRelative(p) THEN RelativeResolve(importer, p)
        ELSE DefaultResolve(p)

\* the import specifiers in the source text of each project file
ImportsOf(node) ==
    IF node = <<<<"A", "p", "p", ".", "t", "s", "x">>>>
    THEN {<<".", "/", "u", "i", "/", "B", "u", "t", "t", "o", "n">>, <<"@", "/", "u", "t", "i", "l">>, <<"r", "e", "a", "c", "t">>, <<"@", "s", "c", "o", "p", "e", "/", "p", "k", "g", "/", "s", "u", "b">>, <<".", "/", "m", "i", "s", "s", "i", "n", "g">>}
    ELSE IF node = <<<<"u", "i">>, <<"B", "u", "t", "t", "o", "n", ".", "t", "s", "x">>>>
    THEN {<<".", "/", "B", "u", "t", "t", "o", "n">>, <<".", ".", "/", "A", "p", "p">>, <<"r", "e", "a", "c", "t", "/", "j", "s", "x", "-", "r", "u", "n", "t", "i", "m", "e">>, <<".", ".", "/", "s", "r", "c", "/", "u", "t", "i", "l">>}
    ELSE {}

DepNodes == {
    <<<<"A", "p", "p", ".", "t", "s", "x">>>>,
    <<<<"u", "i">>, <<"B", "u", "t", "t", "o", "n", ".", "t", "s", "x">>>>,
    <<<<"s", "r", "c">>, <<"u", "t", "i", "l", ".", "t", "s">>>>,
    <<<<"p", "a", "c", "k", "a", "g", "e", "s">>, <<"p", "k", "g">>, <<"i", "n", "d", "e", "x", ".", "t", "s">>>>
}

DepTrees == { [node \in S |-> "file"] : S \in SUBSET DepNodes }

EntryStrings == {<<"A", "p", "p", ".", "t", "s", "x">>, <<".", "/", "A", "p", "p", ".", "t", "s", "x">>, <<"u", "i", "/", "B", "u", "t", "t", "o", "n", ".", "t", "s", "x">>, <<"g", "o", "n", "e", ".", "t", "s", "x">>}

AliasMaps == { <<>>, << <<<<"@", "/">>, <<".", "/", "s", "r", "c", "/">>>> >>,
               << <<<<"@", "s", "c", "o", "p", "e", "/">>, <<".", "/", "s", "r", "c", "/">>>> >> }

\* "Add entry points to resolved files"
InitialResolvedEmpty(entryPoints) == {}

InitialResolved(entryPoints) == Range(entryPoints)

NoAnalysis == [localFiles |-> <<>>, npmPackages |-> {}, workspacePackages |-> {}]

DepsInit ==
    /\ platform = "posix"
    /\ fs \in DepTrees
    /\ rfCall = NoCall
    /\ rfResult = EmptyDir
    /\ daInput \in [entryPoints : SeqsUpTo(EntryStrings, MaxEntries),
                    pathAliases : AliasMaps, monorepo : BOOLEAN]
    /\ resolvedFiles = {}
    /\ npmPackages = {}
    /\ workspacePackages = {}
    /\ daQueue = {}
    /\ daLoaded = {}
    /\ daFailed = FALSE
    /\ daPc = "call"
    /\ daResult = NoAnalysis
    /\ daResolutions = {}

DepsIdle ==
    /\ daInput = [entryPoints |-> <<>>, pathAliases |-> <<>>, monorepo |-> FALSE]
    /\ resolvedFiles = {}
    /\ npmPackages = {}
    /\ workspacePackages = {}
    /\ daQueue = {}
    /\ daLoaded = {}
    /\ daFailed = FALSE
    /\ daPc = "idle"
    /\ daResult = NoAnalysis
    /\ daResolutions = {}

\* analyzeDependencies up to esbuild.build: the entry points are added to
\* resolvedFiles and handed to the engine as absolute paths; an entry point
\* the engine cannot resolve is an error of the build
DaStart ==
    /\ daPc = "call"
    /\ resolvedFiles' = InitialResolved(daInput.entryPoints)
    /\ LET absoluteEntryPoints ==
               {ResolveFrom(<<>>, daInput.entryPoints[i]) : i \in 1..Len(daInput.entryPoints)}
       IN  /\ daQueue' = {n \in absoluteEntryPoints : NodeKind(n) = "file"}
           /\ daFailed' = (\E n \in absoluteEntryPoints : NodeKind(n) # "file")
    /\ daPc' = "building"
    /\ UNCHANGED <<daResolutions, daInput, npmPackages, workspacePackages, daLoaded, daResult,
                   chunkVars, relayVars, shareVars, notifs, fileVars, gitVars, binVars, authVars, apVars>>

\* the engine's work list: files found by the callbacks are loaded, each file
\* once
NextQueueRevisit(queue, found, loaded) == queue \cup found

NextQueue(queue, found, loaded) == (queue \cup found) \ loaded

\* the engine loads one file: onLoad records it and returns its text, then
\* every import specifier of the text goes through the onResolve callbacks
DaLoad ==
    /\ daPc = "building"
    /\ \E node \in daQueue :
        LET results == {OnResolve(node, p, daInput.pathAliases, daInput.monorepo) :
                            p \in ImportsOf(node)}
            found == {r.path : r \in {x \in results : ~x.external}}
        IN  /\ resolvedFiles' = resolvedFiles
                    \cup (IF IsScript(relative(node)) THEN {relative(node)} ELSE {})
                    \cup UNION {r.files : r \in results}
            /\ npmPackages' = npmPackages \cup UNION {r.npm : r \in results}
            /\ workspacePackages' = workspacePackages \cup UNION {r.ws : r \in results}
            /\ daResolutions' = daResolutions
                    \cup {[specifier |-> p,
                           did |-> OnResolve(node, p, daInput.pathAliases, daInput.monorepo)] :
                              p \in ImportsOf(node)}
            /\ daLoaded' = daLoaded \cup {node}
            /\ daQueue' = NextQueue(daQueue, found, daLoaded \cup {node})
    /\ UNCHANGED <<daInput, daFailed, daPc, daResult,
                   chunkVars, relayVars, shareVars, notifs, fileVars, gitVars, binVars, authVars, apVars>>

\* the build rejects (a file that cannot be parsed); the catch swallows it
DaFail ==
    /\ daPc = "building"
    /\ daQueue # {}
    /\ daFailed' = TRUE
    /\ daQueue' = {}
    /\ UNCHANGED <<daResolutions, daInput, resolvedFiles, npmPackages, workspacePackages, daLoaded, daPc,
                   daResult, chunkVars, relayVars, shareVars, notifs, fileVars, gitVars, binVars, authVars, apVars>>

\* the build has settled: the three collections are returned
DaReturn ==
    /\ daPc = "building"
    /\ daQueue = {}
    /\ daResult' = [localFiles |-> SortStrings(resolvedFiles),
                    npmPackages |-> npmPackages,
                    workspacePackages |-> workspacePackages]
    /\ daPc' = "returned"
    /\ UNCHANGED <<daResolutions, daInput, resolvedFiles, npmPackages, workspacePackages, daQueue, daLoaded,
                   daFailed, chunkVars, relayVars, shareVars, notifs, fileVars, gitVars, binVars, authVars, apVars>>

----------------------------------------------------------------------------
(* git-utils: gitExec, isGitRepo, getDefaultBranch, getGitDiff.  The text a  *)
(* git command prints is a sequence of tokens ending with "\n"; a command    *)
(* that exits with an error has no output.                                   *)

MaxDiffLen == 3        \* characters of the diff between merge base and HEAD
MaxBytes == 2          \* largest maxBytes drawn

DiffChars == <<"a", "b", "c", "d", "e", "f", "g", "h">>

Sha == <<"0", "1", "2", "3", "4", "5", "6", "7", "8", "9">>

Whitespace == {"\n", " "}

\* String.prototype.trim
RECURSIVE Trim(_)
Trim(s) ==
    IF s = <<>> THEN s
    ELSE IF Head(s) \in Whitespace THEN Trim(Tail(s))
    ELSE IF s[Len(s)] \in Whitespace THEN Trim(SubSeq(s, 1, Len(s) - 1))
    ELSE s

Failed == [ok |-> FALSE, text |-> <<>>]

Printed(text) == [ok |-> TRUE, text |-> text]

\* what `git <command>` does in repository r
GitCommand(r, command) ==
    CASE command.op = "is-inside-work-tree" ->
            IF r.isRepo THEN Printed(<<"true", "\n">>) ELSE Failed
      [] command.op = "verify" ->
            IF r.isRepo /\ command.ref \in r.refs THEN Printed(Sha \o <<"\n">>) ELSE Failed
      [] command.op = "origin-head" ->
            IF r.isRepo /\ r.originHead # None
            THEN Printed(<<"refs/remotes/origin/", r.originHead, "\n">>) ELSE Failed
      [] command.op = "abbrev-ref" ->
            IF r.isRepo THEN Printed(<<r.current, "\n">>) ELSE Failed
      [] command.op = "merge-base" ->
            IF r.isRepo /\ command.ref \in r.refs THEN Printed(Sha \o <<"\n">>) ELSE Failed
      [] command.op = "diff" ->
            IF r.isRepo
            THEN Printed(IF r.diffLen = 0 THEN <<>>
                         ELSE SubSeq(DiffChars, 1, r.diffLen) \o <<"\n">>)
            ELSE Failed
      [] command.op = "diff-stat" ->
            IF r.isRepo
            THEN Printed(IF r.diffLen = 0 THEN <<>> ELSE <<" ", "1 file changed", "\n">>)
            ELSE Failed

\* a value of type string | null
Null == [null |-> TRUE, text |-> <<>>]

Str(text) == [null |-> FALSE, text |-> text]

\* gitExec: the trimmed output, or null when the command fails
gitExec(r, command) ==
    LET run == GitCommand(r, command)
    IN  IF run.ok THEN Str(Trim(run.text)) ELSE Null

isGitRepo(r) == gitExec(r, [op |-> "is-inside-work-tree"]) = Str(<<"true">>)

\* a branch name as it is interpolated into a command line
RefOf(name) == IF name.null \/ name.text = <<>> THEN "" ELSE name.text[1]

getDefaultBranchMasterFirst(r) ==
    IF ~isGitRepo(r) THEN Null
    ELSE IF gitExec(r, [op |-> "verify", ref |-> "master"]) # Null THEN Str(<<"master">>)
    ELSE IF gitExec(r, [op |-> "verify", ref |-> "main"]) # Null THEN Str(<<"main">>)
    ELSE Null

getDefaultBranch(r) ==
    IF ~isGitRepo(r) THEN Null
    ELSE IF gitExec(r, [op |-> "verify", ref |-> "main"]) # Null THEN Str(<<"main">>)
    ELSE IF gitExec(r, [op |-> "verify", ref |-> "master"]) # Null THEN Str(<<"master">>)
    ELSE LET originHead == gitExec(r, [op |-> "origin-head"])
         IN  IF ~originHead.null /\ originHead.text # <<>>
             THEN IF Head(originHead.text) = "refs/remotes/origin/"
                  THEN Str(Tail(originHead.text))
                  ELSE originHead
             ELSE Null

\* !value for a string or null
Falsy(v) == v.null \/ v.text = <<>>

\* const isTruncated = diff.length > maxBytes
isTruncatedInclusive(diff, maxBytes) == Len(diff) >= maxBytes

isTruncatedAt(diff, maxBytes) == Len(diff) > maxBytes

getGitDiff(r, maxBytes, baseBranch) ==
    IF ~isGitRepo(r) THEN Null
    ELSE LET defaultBranch == IF Falsy(baseBranch) THEN getDefaultBranch(r) ELSE baseBranch
         IN  IF Falsy(defaultBranch) THEN Null
    ELSE LET currentBranch == gitExec(r, [op |-> "abbrev-ref"])
         IN  IF Falsy(currentBranch) \/ currentBranch = defaultBranch THEN Null
    ELSE LET mergeBase == gitExec(r, [op |-> "merge-base", ref |-> RefOf(defaultBranch)])
         IN  IF Falsy(mergeBase) THEN Null
    ELSE LET stat == gitExec(r, [op |-> "diff-stat"])
             diffStat == IF Falsy(stat) THEN <<>> ELSE stat.text
             diff == gitExec(r, [op |-> "diff"])
         IN  IF Falsy(diff) \/ Len(diff.text) = 0 THEN Null
    ELSE LET isTruncated == isTruncatedAt(diff.text, maxBytes)
             truncatedDiff == IF isTruncated
                              THEN SubSeq(diff.text, 1, maxBytes) \o <<"\n... (truncated)">>
                              ELSE diff.text
         IN  [baseBranch |-> defaultBranch.text,
              currentBranch |-> currentBranch.text,
              mergeBase |-> SubSeq(mergeBase.text, 1, 7),
              diff |-> truncatedDiff,
              diffStat |-> diffStat,
              isTruncated |-> isTruncated,
              totalBytes |-> Len(diff.text)]

\* the git commands getGitDiff runs through gitExec after isGitRepo and the
\* choice of the base branch, in order
getGitDiffCommands(r, baseBranch) ==
    IF ~isGitRepo(r) THEN <<>>
    ELSE LET defaultBranch == IF Falsy(baseBranch) THEN getDefaultBranch(r) ELSE baseBranch
         IN  IF Falsy(defaultBranch) THEN <<>>
    ELSE LET currentBranch == gitExec(r, [op |-> "abbrev-ref"])
         IN  IF Falsy(currentBranch) \/ currentBranch = defaultBranch
             THEN <<[op |-> "abbrev-ref"]>>
    ELSE LET mergeBase == gitExec(r, [op |-> "merge-base", ref |-> RefOf(defaultBranch)])
         IN  IF Falsy(mergeBase)
             THEN <<[op |-> "abbrev-ref"], [op |-> "merge-base", ref |-> RefOf(defaultBranch)]>>
             ELSE <<[op |-> "abbrev-ref"], [op |-> "merge-base", ref |-> RefOf(defaultBranch)],
                    [op |-> "diff-stat"], [op |-> "diff"]>>

BranchNames == {"main", "master", "feature"}

\* the repositories considered: the names `git rev-parse --verify` resolves,
\* the target of refs/remotes/origin/HEAD if it is set, the checked-out
\* branch ("HEAD" when detached), and the length of the diff between the
\* merge base and HEAD (0 when the branch has no commits ahead of its base)
Repos ==
    {r \in [isRepo : BOOLEAN, refs : SUBSET BranchNames, originHead : {None, "main", "develop"},
            current : BranchNames \cup {"HEAD"}, diffLen : 0..MaxDiffLen] :
        /\ r.current \in r.refs \cup {"HEAD"}
        /\ (~r.isRepo => r.refs = {} /\ r.originHead = None /\ r.current = "HEAD" /\ r.diffLen = 0)}

NoRepo == [isRepo |-> FALSE, refs |-> {}, originHead |-> None, current |-> "HEAD", diffLen |-> 0]

DirtyChars == <<"s", "t", "u", "v", "w", "x", "y", "z">>

\* what execSync('git <command>') does in repository r of the share tool:
\* the text printed, or a throw when git exits with an error
Exec(r, command) ==
    CASE command.op = "git-dir" ->
            IF r.isRepo THEN Printed(<<".git", "\n">>) ELSE Failed
      [] command.op = "show-current" ->
            IF r.isRepo THEN Printed(IF r.current = "" THEN <<>> ELSE <<r.current, "\n">>)
            ELSE Failed
      [] command.op = "get-url" ->
            IF r.isRepo /\ r.origin THEN Printed(<<"url", "\n">>) ELSE Failed
      [] command.op = "show-ref" ->
            IF r.isRepo /\ command.ref \in r.heads THEN Printed(<<>>) ELSE Failed
      [] command.op = "diff-base" ->
            IF r.isRepo /\ r.born /\ command.ref \in r.heads
            THEN Printed(IF r.current = command.ref \/ r.ahead = 0 THEN <<>>
                         ELSE SubSeq(DiffChars, 1, r.ahead) \o <<"\n">>)
            ELSE Failed
      [] command.op = "diff-base-stat" ->
            IF r.isRepo /\ r.born /\ command.ref \in r.heads
            THEN Printed(IF r.current = command.ref \/ r.ahead = 0 THEN <<>>
                         ELSE <<" ", "1 file changed", "\n">>)
            ELSE Failed
      [] command.op = "diff-head" ->
            IF r.isRepo /\ r.born
            THEN Printed(IF r.dirty = 0 THEN <<>> ELSE SubSeq(DirtyChars, 1, r.dirty) \o <<"\n">>)
            ELSE Failed
      [] command.op = "diff-head-stat" ->
            IF r.isRepo /\ r.born
            THEN Printed(IF r.dirty = 0 THEN <<>> ELSE <<" ", "1 file changed", "\n">>)
            ELSE Failed

\* `let baseBranch = 'main'`, replaced by master when refs/heads/main is not
\* there and refs/heads/master is
BaseBranchOf(r) ==
    IF Exec(r, [op |-> "show-ref", ref |-> "main"]).ok THEN "main"
    ELSE IF Exec(r, [op |-> "show-ref", ref |-> "master"]).ok THEN "master"
    ELSE "main"

\* the try block of the diff against the base and the try block of its catch:
\* diff and diffStat keep what was assigned before a throw
DiffOf(r, baseBranch) ==
    LET d1 == Exec(r, [op |-> "diff-base", ref |-> baseBranch])
        s1 == Exec(r, [op |-> "diff-base-stat", ref |-> baseBranch])
        d2 == Exec(r, [op |-> "diff-head"])
        s2 == Exec(r, [op |-> "diff-head-stat"])
        first == IF ~d1.ok THEN [diff |-> <<>>, diffStat |-> <<>>, threw |-> TRUE]
                 ELSE IF ~s1.ok THEN [diff |-> d1.text, diffStat |-> <<>>, threw |-> TRUE]
                 ELSE [diff |-> d1.text, diffStat |-> s1.text, threw |-> FALSE]
    IN  IF ~first.threw THEN [diff |-> first.diff, diffStat |-> first.diffStat]
        ELSE IF ~d2.ok THEN [diff |-> first.diff, diffStat |-> first.diffStat]
        ELSE IF ~s2.ok THEN [diff |-> d2.text, diffStat |-> first.diffStat]
        ELSE [diff |-> d2.text, diffStat |-> s2.text]

NotARepo == [isGitRepo |-> FALSE]

RepoOnly == [isGitRepo |-> TRUE]

getGitInfo(r) ==
    IF ~Exec(r, [op |-> "git-dir"]).ok THEN NotARepo
    ELSE LET shown == Exec(r, [op |-> "show-current"])
             url == Exec(r, [op |-> "get-url"])
         IN  IF ~shown.ok THEN RepoOnly
             ELSE LET baseBranch == BaseBranchOf(r)
                      d == DiffOf(r, baseBranch)
                  IN  [isGitRepo |-> TRUE,
                       currentBranch |-> Trim(shown.text),
                       baseBranch |-> baseBranch,
                       gitUrl |-> IF url.ok THEN Str(Trim(url.text)) ELSE Null,
                       diff |-> d.diff,
                       diffStat |-> d.diffStat]

\* the repositories considered: the local branches, the checked-out branch
\* ("" when HEAD is detached), whether HEAD has a commit, whether a remote
\* named origin is configured, the length of the diff between the merge base
\* with the base branch and HEAD, and the length of the diff between HEAD and
\* the work tree (uncommitted work)
InfoRepos ==
    {r \in [isRepo : BOOLEAN, heads : SUBSET BranchNames, current : BranchNames \cup {""},
            born : BOOLEAN, origin : BOOLEAN, ahead : 0..MaxDiffLen, dirty : 0..MaxDiffLen] :
        /\ (r.born => r.current \in r.heads \cup {""})
        /\ (~r.born => r.heads = {} /\ r.current = "main" /\ r.ahead = 0)
        /\ (~r.isRepo => ~r.born /\ ~r.origin /\ r.dirty = 0)}

NoInfoRepo == [isRepo |-> FALSE, heads |-> {}, current |-> "main", born |-> FALSE,
               origin |-> FALSE, ahead |-> 0, dirty |-> 0]

GitInfoInit ==
    /\ giRepo \in InfoRepos
    /\ giPc = "call"
    /\ giResult = NotARepo

GitInfoIdle ==
    /\ giRepo = NoInfoRepo
    /\ giPc = "idle"
    /\ giResult = NotARepo

GetGitInfo ==
    /\ giPc = "call"
    /\ giResult' = getGitInfo(giRepo)
    /\ giPc' = "returned"
    /\ UNCHANGED <<giRepo, gitRepo, gitArgs, gitPc, gitResult, gitCalls,
                   chunkVars, relayVars, shareVars, notifs, fileVars, depVars, binVars, authVars, apVars>>

GitInit ==
    /\ gitRepo \in Repos
    /\ gitArgs \in [maxBytes : 0..MaxBytes,
                    baseBranch : {Null, Str(<<>>), Str(<<"main">>), Str(<<"develop">>)}]
    /\ gitPc = "call"
    /\ gitResult = Null
    /\ gitCalls = <<>>
    /\ GitInfoIdle

DiffIdle ==
    /\ gitRepo = NoRepo
    /\ gitArgs = [maxBytes |-> 1, baseBranch |-> Null]
    /\ gitPc = "idle"
    /\ gitResult = Null
    /\ gitCalls = <<>>

GitIdle == DiffIdle /\ GitInfoIdle

GetGitDiff ==
    /\ gitPc = "call"
    /\ gitResult' = getGitDiff(gitRepo, gitArgs.maxBytes, gitArgs.baseBranch)
    /\ gitCalls' = getGitDiffCommands(gitRepo, gitArgs.baseBranch)
    /\ gitPc' = "returned"
    /\ UNCHANGED <<gitRepo, gitArgs, giRepo, giPc, giResult,
                   chunkVars, relayVars, shareVars, notifs, fileVars, depVars, binVars, authVars, apVars>>

----------------------------------------------------------------------------
(* file-utils: isBinaryFile, containsBinaryContent and the entry a reader    *)
(* stores.  A buffer is a sequence of runs [byte, count]: count bytes equal  *)
(* to byte; the scan of containsBinaryContent is made run by run.            *)

MaxRuns == 3           \* runs of a buffer

SAMPLE_LIMIT == 8192

BINARY_EXTENSIONS == {
    <<".", "p", "n", "g">>, <<".", "j", "p", "g">>, <<".", "j", "p", "e", "g">>,
    <<".", "g", "i", "f">>, <<".", "w", "e", "b", "p">>, <<".", "i", "c", "o">>,
    <<".", "s", "v", "g">>, <<".", "b", "m", "p">>, <<".", "t", "i", "f", "f">>,
    <<".", "a", "v", "i", "f">>, <<".", "h", "e", "i", "c">>, <<".", "h", "e", "i", "f">>,
    <<".", "w", "o", "f", "f">>, <<".", "w", "o", "f", "f", "2">>, <<".", "t", "t", "f">>,
    <<".", "e", "o", "t">>, <<".", "o", "t", "f">>, <<".", "m", "p", "3">>,
    <<".", "m", "p", "4">>, <<".", "w", "e", "b", "m">>, <<".", "o", "g", "g">>,
    <<".", "w", "a", "v">>, <<".", "m", "4", "a">>, <<".", "f", "l", "a", "c">>,
    <<".", "a", "v", "i">>, <<".", "m", "o", "v">>, <<".", "m", "k", "v">>,
    <<".", "p", "d", "f">>, <<".", "d", "o", "c">>, <<".", "d", "o", "c", "x">>,
    <<".", "x", "l", "s">>, <<".", "x", "l", "s", "x">>, <<".", "p", "p", "t">>,
    <<".", "p", "p", "t", "x">>, <<".", "z", "i", "p">>, <<".", "t", "a", "r">>,
    <<".", "g", "z">>, <<".", "b", "z", "2">>, <<".", "7", "z">>,
    <<".", "r", "a", "r">>, <<".", "e", "x", "e">>, <<".", "d", "l", "l">>,
    <<".", "s", "o">>, <<".", "d", "y", "l", "i", "b">>, <<".", "b", "i", "n">>,
    <<".", "d", "a", "t">>, <<".", "d", "b">>, <<".", "s", "q", "l", "i", "t", "e">>,
    <<".", "s", "q", "l", "i", "t", "e", "3">>, <<".", "w", "a", "s", "m">>, <<".", "l", "o", "c", "k", "b">>
}

UpperCase == <<"A", "B", "C", "D", "E", "F", "G", "H", "I", "J", "K", "L", "M", "N", "O", "P", "Q", "R", "S", "T", "U", "V", "W", "X", "Y", "Z">>
LowerCase == <<"a", "b", "c", "d", "e", "f", "g", "h", "i", "j", "k", "l", "m", "n", "o", "p", "q", "r", "s", "t", "u", "v", "w", "x", "y", "z">>

\* String.prototype.toLowerCase
toLowerCase(s) ==
    [i \in 1..Len(s) |->
        IF \E k \in 1..Len(UpperCase) : UpperCase[k] = s[i]
        THEN LowerCase[CHOOSE k \in 1..Len(UpperCase) : UpperCase[k] = s[i]]
        ELSE s[i]]

\* path.extname: from the last "." of the name to its end; "" when there is
\* no "." or the only "." is the first character
extname(filename) ==
    LET dots == {i \in 2..Len(filename) : filename[i] = "."}
    IN  IF dots = {} THEN <<>>
        ELSE SubSeq(filename, CHOOSE i \in dots : \A j \in dots : j <= i, Len(filename))

isBinaryFileCaseSensitive(filename) == extname(filename) \in BINARY_EXTENSIONS

isBinaryFile(filename) == toLowerCase(extname(filename)) \in BINARY_EXTENSIONS

Min(a, b) == IF a <= b THEN a ELSE b

\* buffer.length
BufferLength(buf) == SumSeq([i \in 1..Len(buf) |-> buf[i].count])

\* the for-loop over the first `remaining` bytes: whether a null byte was met
\* and how many non-printable bytes were counted
RECURSIVE ScanSample(_, _, _)
ScanSample(buf, remaining, nonPrintable) ==
    IF buf = <<>> \/ remaining = 0 THEN [null |-> FALSE, nonPrintable |-> nonPrintable]
    ELSE LET byte == Head(buf).byte
             take == Min(Head(buf).count, remaining)
         IN  IF byte = 0 THEN [null |-> TRUE, nonPrintable |-> nonPrintable]
             ELSE ScanSample(Tail(buf), remaining - take,
                             nonPrintable +
                               (IF byte < 32 /\ byte # 9 /\ byte # 10 /\ byte # 13
                                THEN take ELSE 0))

\* (nonPrintable / sampleSize) > 0.1; 0 / 0 is NaN, which is not > 0.1
containsBinaryContent(buf) ==
    LET sampleSize == Min(BufferLength(buf), SAMPLE_LIMIT)
        scan == ScanSample(buf, sampleSize, 0)
    IN  scan.null \/ (sampleSize > 0 /\ 10 * scan.nonPrintable > sampleSize)

\* the length of buffer.toString("base64")
Base64Length(n) == 4 * ((n + 2) \div 3)

\* what readProjectFiles / readSpecificFiles put into `files` for one file
StoredEntry(fileName, buf) ==
    LET isBinaryByExt == isBinaryFile(fileName)
        isBinaryByContent == ~isBinaryByExt /\ containsBinaryContent(buf)
        treatAsBinary == isBinaryByExt \/ isBinaryByContent
    IN  IF treatAsBinary
        THEN [object |-> TRUE, encoding |-> "base64", of |-> buf,
              length |-> Base64Length(BufferLength(buf))]
        ELSE [object |-> FALSE, encoding |-> "utf-8", of |-> buf,
              length |-> BufferLength(buf)]

FileNames == {<<"a", ".", "b", "i", "n">>, <<"A", ".", "B", "I", "N">>, <<"a", ".", "t", "x", "t">>, <<".", "p", "n", "g">>, <<"b", ".", "t", "a", "r", ".", "g", "z">>}

\* a null byte, a control byte, a line feed, a letter, a byte above 127
Bytes == {0, 7, 10, 65, 200}

RunCounts == {1, 9, SAMPLE_LIMIT - 1}

Buffers == SeqsUpTo([byte : Bytes, count : RunCounts], MaxRuns)

NoEntry == [object |-> FALSE, encoding |-> "none", of |-> <<>>, length |-> 0]

BinInit ==
    /\ binName \in FileNames
    /\ binBuffer \in Buffers
    /\ binPc = "read"
    /\ binEntry = NoEntry

BinIdle ==
    /\ binName = <<>>
    /\ binBuffer = <<>>
    /\ binPc = "idle"
    /\ binEntry = NoEntry

StoreFile ==
    /\ binPc = "read"
    /\ binEntry' = StoredEntry(binName, binBuffer)
    /\ binPc' = "stored"
    /\ UNCHANGED <<binName, binBuffer, chunkVars, relayVars, shareVars, notifs, fileVars,
                   depVars, gitVars, authVars, apVars>>

----------------------------------------------------------------------------
(* auth.ts: authenticate() and its callback listener.  A request is the     *)
(* path part of its request target, as characters, with the values          *)
(* searchParams.get gives for api_key and user_id.                           *)

MaxConns == 2          \* connections open at once
MaxRequests == 2       \* requests delivered during one authenticate()

UrlSeparators == {"/", "\\"}

\* the path state of the URL parser: "." is dropped, ".." removes the last
\* segment, and either one as the last segment leaves an empty segment
RECURSIVE UrlSegments(_, _)
UrlSegments(segments, path) ==
    IF segments = <<>> THEN path
    ELSE LET h == Head(segments)
             last == Len(segments) = 1
             shortened == IF path = <<>> THEN <<>> ELSE SubSeq(path, 1, Len(path) - 1)
         IN  IF h = <<".", ".">>
             THEN UrlSegments(Tail(segments), IF last THEN Append(shortened, <<>>) ELSE shortened)
             ELSE IF h = <<".">>
             THEN UrlSegments(Tail(segments), IF last THEN Append(path, <<>>) ELSE path)
             ELSE UrlSegments(Tail(segments), Append(path, h))

PathnameOf(rest) == <<"/">> \o Join(UrlSegments(Split(rest, UrlSeparators), <<>>), "/")

InvalidUrl == [failure |-> TRUE, pathname |-> <<>>]

Url(pathname) == [failure |-> FALSE, pathname |-> pathname]

\* the target without its leading slashes
RECURSIVE SkipSlashes(_)
SkipSlashes(s) ==
    IF s # <<>> /\ Head(s) \in UrlSeparators THEN SkipSlashes(Tail(s)) ELSE s

\* new URL(req.url || "", "http://localhost") for an origin-form target: two
\* leading slashes start an authority, whose host must not be empty; the
\* path is what follows the host
ParseUrl(target) ==
    IF target = <<>> THEN Url(<<"/">>)
    ELSE IF Len(target) >= 2 /\ target[2] \in UrlSeparators
    THEN LET afterSlashes == SkipSlashes(target)
             parts == Split(afterSlashes, UrlSeparators)
             host == parts[1]
         IN  IF host = <<>> THEN InvalidUrl
             ELSE IF Len(parts) = 1 THEN Url(<<"/">>)
             ELSE Url(PathnameOf(SubSeq(afterSlashes, Len(host) + 2, Len(afterSlashes))))
    ELSE Url(PathnameOf(Tail(target)))

CallbackPath == <<"/", "c", "a", "l", "l", "b", "a", "c", "k">>

Targets == {CallbackPath, <<"/">>, <<"/", "x", "/", ".", ".", "/", "c", "a", "l", "l", "b", "a", "c", "k">>, <<"/", "c", "a", "l", "l", "b", "a", "c", "k", "/">>, <<"/", "/">>}

Queries ==
    {[api_key |-> Str(<<"k">>), user_id |-> Str(<<"u">>)],
     [api_key |-> Str(<<"k">>), user_id |-> Null],
     [api_key |-> Str(<<>>), user_id |-> Str(<<"u">>)]}

Requests == {[target |-> t, query |-> q] : t \in Targets, q \in Queries}

Unsettled == [state |-> "pending", value |-> <<>>]

Fulfilled(authData) == [state |-> "resolved", value |-> authData.apiKey \o authData.userId]

Failure(message) == [state |-> "rejected", value |-> <<message>>]

\* resolve() and reject() of a promise that may have settled already
Settle(p, result) == IF p.state = "pending" THEN result ELSE p

NoFile == [present |-> FALSE, apiKey |-> <<>>, userId |-> <<>>, email |-> Null]

OldFile == [present |-> TRUE, apiKey |-> <<"old">>, userId |-> <<"old">>,
            email |-> Str(<<"old@example.com">>)]

\* a write that keeps the fields of the old record the new one lacks
saveAuthDataMerged(data) ==
    [present |-> TRUE, apiKey |-> data.apiKey, userId |-> data.userId,
     email |-> IF data.email = Null THEN authFile.email ELSE data.email]

\* saveAuthData: writeFileSync(AUTH_FILE, JSON.stringify(data))
saveAuthData(data) ==
    [present |-> TRUE, apiKey |-> data.apiKey, userId |-> data.userId, email |-> data.email]

\* server.close(): stop listening; a runtime that closes idle connections
\* keeps only the connections in `busy`
ServerStateAfterClose(state) == IF state = "listening" THEN "closed" ELSE state

ConnsAfterClose(busy) == IF runtime = "closesIdle" THEN conns \cap busy ELSE conns

\* if (!apiKey || !userId)
CallbackMissing(query) == Falsy(query.api_key) \/ Falsy(query.user_id)

AuthInit ==
    /\ server = "starting"
    /\ runtime \in {"keepsIdle", "closesIdle"}
    /\ conns = {}
    /\ promise = Unsettled
    /\ authFile \in {NoFile, OldFile}
    /\ timeout = "armed"
    /\ closeEmitted = FALSE
    /\ served = <<>>

AuthIdle ==
    /\ server = "idle"
    /\ runtime = "keepsIdle"
    /\ conns = {}
    /\ promise = Unsettled
    /\ authFile = NoFile
    /\ timeout = "none"
    /\ closeEmitted = FALSE
    /\ served = <<>>

AuthOthers == <<chunkVars, relayVars, shareVars, notifs, fileVars, depVars, gitVars, binVars, apVars>>

\* server.listen(0, "127.0.0.1", callback): the address is known, the
\* browser is opened (or not)
Listening ==
    /\ server = "starting"
    /\ server' = "listening"
    /\ UNCHANGED <<runtime, conns, promise, authFile, timeout, closeEmitted, served, AuthOthers>>

\* server.on("error"): the listener could not start
ListenError ==
    /\ server = "starting"
    /\ server' = "failed"
    /\ promise' = Settle(promise, Failure("Failed to start auth server"))
    /\ UNCHANGED <<runtime, conns, authFile, timeout, closeEmitted, served, AuthOthers>>

\* a client connects to the listening server
Connect ==
    /\ server = "listening"
    /\ \E c \in (1..MaxConns) \ conns : conns' = conns \cup {c}
    /\ UNCHANGED <<server, runtime, promise, authFile, timeout, closeEmitted, served, AuthOthers>>

\* a connection ends
Disconnect ==
    /\ server \in {"listening", "closed"}
    /\ \E c \in conns : conns' = conns \ {c}
    /\ UNCHANGED <<server, runtime, promise, authFile, timeout, closeEmitted, served, AuthOthers>>

Served(c, req, status) ==
    [conn |-> c, target |-> req.target, query |-> req.query, status |-> status,
     before |-> promise.state, after |-> promise'.state, listening |-> server' = "listening"]

\* the request handler given to http.createServer, for a request that
\* arrives on an open connection; an exception it throws is uncaught
HandleRequest ==
    /\ server \in {"listening", "closed"}
    /\ Len(served) < MaxRequests
    /\ \E c \in conns, req \in Requests :
        LET url == ParseUrl(req.target) IN
        /\ IF url.failure
           THEN /\ server' = "crashed"
                /\ conns' = {}
                /\ UNCHANGED <<promise, authFile>>
           ELSE IF url.pathname = CallbackPath
           THEN IF CallbackMissing(req.query)
                THEN /\ server' = ServerStateAfterClose(server)
                     /\ conns' = ConnsAfterClose({c})
                     /\ promise' = Settle(promise, Failure("Missing API key or user ID in callback"))
                     /\ UNCHANGED authFile
                ELSE LET authData == [apiKey |-> req.query.api_key.text,
                                      userId |-> req.query.user_id.text,
                                      email |-> Null]      \* no request carries email
                     IN
                     /\ authFile' = saveAuthData(authData)
                     /\ server' = ServerStateAfterClose(server)
                     /\ conns' = ConnsAfterClose({c})
                     /\ promise' = Settle(promise, Fulfilled(authData))
           ELSE UNCHANGED <<server, conns, promise, authFile>>
        /\ served' = Append(served, Served(c, req,
                        IF url.failure THEN 0
                        ELSE IF url.pathname # CallbackPath THEN 404
                        ELSE IF CallbackMissing(req.query) THEN 400 ELSE 200))
    /\ UNCHANGED <<runtime, timeout, closeEmitted, AuthOthers>>

\* setTimeout(..., 300000) fires: server.close(); reject(...)
Timeout ==
    /\ timeout = "armed"
    /\ server \in {"listening", "closed", "failed"}
    /\ timeout' = "fired"
    /\ server' = ServerStateAfterClose(server)
    /\ conns' = ConnsAfterClose({})
    /\ promise' = Settle(promise, Failure("Authentication timed out after 5 minutes"))
    /\ UNCHANGED <<runtime, authFile, closeEmitted, served, AuthOthers>>

\* server.on("close"): emitted once the server is closed and its last
\* connection has ended; clearTimeout(timeout)
CloseEvent ==
    /\ server = "closed"
    /\ conns = {}
    /\ ~closeEmitted
    /\ closeEmitted' = TRUE
    /\ timeout' = IF timeout = "armed" THEN "cleared" ELSE timeout
    /\ UNCHANGED <<server, runtime, conns, promise, authFile, served, AuthOthers>>

----------------------------------------------------------------------------
(* dependency-analyzer: parseChangedFilesFromDiff, isUIRelevant and          *)
(* analyzeProjectDependencies.  A diff is a sequence of lines; the lines    *)
(* that matter are the `diff --git a/<a> b/<b>` header and the mode lines   *)
(* `deleted file mode` and `new file mode` git prints after it.             *)

MaxDiffFiles == 2      \* files a diff reports

ScriptSuffixes == {<<".", "j", "s">>, <<".", "j", "s", "x">>, <<".", "t", "s">>, <<".", "t", "s", "x">>}

\* /(^|\/)dir\/.*\.(js|jsx|ts|tsx)$/
InDirWithScriptSuffix(dir, s) ==
    \E i \in 1..Len(s) :
        /\ StartsWith(SubSeq(s, i, Len(s)), dir \o <<"/">>)
        /\ (i = 1 \/ s[i - 1] = "/")
        /\ \E e \in ScriptSuffixes : EndsWith(SubSeq(s, i + Len(dir) + 1, Len(s)), e)

\* UI_RELEVANT_PATTERNS.some((pattern) => pattern.test(filePath))
isUIRelevant(filePath) ==
    \/ \E e \in {<<".", "t", "s", "x">>, <<".", "j", "s", "x">>} : EndsWith(filePath, e)
    \/ test(DirAnywhere(<<"c", "o", "m", "p", "o", "n", "e", "n", "t", "s">>), filePath)
    \/ InDirWithScriptSuffix(<<"a", "p", "p">>, filePath)
    \/ InDirWithScriptSuffix(<<"p", "a", "g", "e", "s">>, filePath)
    \/ \E e \in {<<".", "c", "s", "s">>, <<".", "s", "c", "s", "s">>, <<".", "s", "a", "s", "s">>, <<".", "m", "o", "d", "u", "l", "e", ".", "c", "s", "s">>} : EndsWith(filePath, e)

HeaderLine(a, b) == [t |-> "header", a |-> a, b |-> b]

ModeLine(change) == [t |-> change, a |-> <<>>, b |-> <<>>]

HunkLine == [t |-> "hunk", a |-> <<>>, b |-> <<>>]

\* the lines git prints for one file
Section(path, change) ==
    <<HeaderLine(path, path)>>
    \o (IF change = "modified" THEN <<>> ELSE <<ModeLine(change)>>)
    \o <<HunkLine>>

\* the changeType parseChangedFilesFromDiff gives a header line
ChangeTypeOf(lines, i) == "modified"

ChangedFile(path, changeType) ==
    [path |-> path, changeType |-> changeType, isUIRelevant |-> isUIRelevant(path)]

\* one ChangedFile per line matching /^diff --git a\/(.+?) b\/(.+?)$/, with
\* the path taken from the b side
RECURSIVE ParseFrom(_, _)
ParseFrom(lines, i) ==
    IF i > Len(lines) THEN <<>>
    ELSE (IF lines[i].t = "header"
          THEN <<ChangedFile(lines[i].b, ChangeTypeOf(lines, i))>> ELSE <<>>)
         \o ParseFrom(lines, i + 1)

parseChangedFilesFromDiff(diff) == ParseFrom(diff, 1)

\* files.filter((f) => f.isUIRelevant && f.changeType !== "deleted").map((f) => f.path)
IsEntryPoint(f) == f.isUIRelevant /\ f.changeType # "deleted"

PathsOf(files) == [i \in 1..Len(files) |-> files[i].path]

EntryPointsOf(files) == PathsOf(SelectSeq(files, IsEntryPoint))

\* the files of analyzeProjectDependencies, by the source of the change list
ChangedFilesOf(input) ==
    IF input.changedFiles # <<>>
    THEN [i \in 1..Len(input.changedFiles) |-> ChangedFile(input.changedFiles[i], "modified")]
    ELSE IF input.git = "diff" THEN parseChangedFilesFromDiff(input.diff)
    ELSE <<>>

ProjectResult(entryPoints, dependencies) ==
    [isError |-> FALSE, entryPoints |-> entryPoints, localFiles |-> dependencies.localFiles,
     npmPackages |-> dependencies.npmPackages,
     workspacePackages |-> dependencies.workspacePackages]

NoProjectResult ==
    [isError |-> FALSE, entryPoints |-> <<>>, localFiles |-> <<>>, npmPackages |-> {},
     workspacePackages |-> {}]

ChangedPaths == {<<"A", "p", "p", ".", "t", "s", "x">>, <<"l", "i", "b", "/", "u", "t", "i", "l", ".", "t", "s">>, <<"a", "p", "p", "/", "p", "a", "g", "e", ".", "t", "s">>, <<"R", "E", "A", "D", "M", "E", ".", "m", "d">>}

Diffs ==
    {Flatten(ss) : ss \in SeqsUpTo({Section(pth, c) : pth \in ChangedPaths,
                                                      c \in {"modified", "deleted", "added"}},
                                   MaxDiffFiles)}

ProjectInputs ==
    {[changedFiles |-> <<>>, git |-> g, diff |-> <<>>] : g \in {"norepo", "nodiff"}}
    \cup {[changedFiles |-> <<>>, git |-> "diff", diff |-> d] : d \in Diffs \ {<<>>}}
    \cup {[changedFiles |-> <<pth>>, git |-> "diff", diff |-> <<>>] : pth \in ChangedPaths}

ProjectInit ==
    /\ apInput \in ProjectInputs
    /\ apPc = "call"
    /\ apFiles = <<>>
    /\ apEngineCalls = <<>>
    /\ apResult = NoProjectResult

ProjectIdle ==
    /\ apInput = [changedFiles |-> <<>>, git |-> "norepo", diff |-> <<>>]
    /\ apPc = "idle"
    /\ apFiles = <<>>
    /\ apEngineCalls = <<>>
    /\ apResult = NoProjectResult

ProjectOthers ==
    <<chunkVars, relayVars, shareVars, notifs, fileVars, depVars, gitVars, binVars, authVars>>

\* analyzeProjectDependencies up to the call of analyzeDependencies: with no
\* entry point it returns the empty result at once
ApStart ==
    /\ apPc = "call"
    /\ LET files == ChangedFilesOf(apInput)
           entryPoints == EntryPointsOf(files)
       IN  /\ apFiles' = files
           /\ IF entryPoints = <<>>
              THEN /\ apResult' = ProjectResult(<<>>, NoAnalysis)
                   /\ apPc' = "returned"
                   /\ UNCHANGED apEngineCalls
              ELSE /\ apEngineCalls' = Append(apEngineCalls, entryPoints)
                   /\ apPc' = "analyzing"
                   /\ UNCHANGED apResult
    /\ UNCHANGED <<apInput, ProjectOthers>>

\* analyzeDependencies returned: the entry points are among its localFiles,
\* with whatever else the engine resolved
ApAnalyzed ==
    /\ apPc = "analyzing"
    /\ \E more \in {<<>>, <<<<"u", "i", "/", "B", "u", "t", "t", "o", "n", ".", "t", "s", "x">>>>}, npm \in {{}, {"react"}} :
        apResult' = ProjectResult(apEngineCalls[1],
                                  [localFiles |-> apEngineCalls[1] \o more,
                                   npmPackages |-> npm, workspacePackages |-> {}])
    /\ apPc' = "returned"
    /\ UNCHANGED <<apInput, apFiles, apEngineCalls, ProjectOthers>>

----------------------------------------------------------------------------
(* Specifications *)

ChunkNext == ChunkCall

InitChunk == ChunkInit /\ RelayIdle /\ ShareIdle /\ FilesIdle /\ DepsIdle /\ GitIdle /\ BinIdle /\ AuthIdle /\ ProjectIdle

SpecChunk == InitChunk /\ [][ChunkNext]_vars

RelayNext ==
    \/ RelayRead
    \/ RelayEnd

InitRelay == RelayInit /\ ChunkIdle /\ ShareIdle /\ FilesIdle /\ DepsIdle /\ GitIdle /\ BinIdle /\ AuthIdle /\ ProjectIdle

SpecRelay == InitRelay /\ [][RelayNext]_vars

InitPct == PctInit /\ ChunkIdle /\ ShareIdle /\ FilesIdle /\ DepsIdle /\ GitIdle /\ BinIdle /\ AuthIdle /\ ProjectIdle

SpecPct == InitPct /\ [][RelayNext]_vars

Next ==
    \/ HStart
    \/ HHealthReply
    \/ HRead
    \/ HAuthDone
    \/ HTransfer
    \/ HShareReply
    \/ HInitReply
    \/ HUploadSend
    \/ HUploadReply
    \/ HFinalizeReply
    \/ RelayRead
    \/ RelayEnd
    \/ HReturn

Init == ShareInit /\ RelayIdle /\ ChunkIdle /\ FilesIdle /\ DepsIdle /\ GitIdle /\ BinIdle /\ AuthIdle /\ ProjectIdle

Spec == Init /\ [][Next]_vars

FilesNext ==
    \/ ReadProjectFiles
    \/ ReadProjectFilesLegacy
    \/ ReadSpecificFiles

InitFiles == FilesInit /\ ChunkIdle /\ RelayIdle /\ ShareIdle /\ DepsIdle /\ GitIdle /\ BinIdle /\ AuthIdle /\ ProjectIdle

SpecFiles == InitFiles /\ [][FilesNext]_vars

DepsNext ==
    \/ DaStart
    \/ DaLoad
    \/ DaFail
    \/ DaReturn

InitDeps == DepsInit /\ ChunkIdle /\ RelayIdle /\ ShareIdle /\ GitIdle /\ BinIdle /\ AuthIdle /\ ProjectIdle

SpecDeps == InitDeps /\ [][DepsNext]_vars

\* DaLoad can take a step exactly when the build has a queued file
LoadEnabled == daPc = "building" /\ daQueue # {}

\* esbuild.build settles: the call is made, the engine keeps loading while it
\* has a queued file, and the awaited promise is settled once it has none.
\* The last conjunct is weak fairness of DaLoad with its enabling condition
\* written out.
SpecDepsFair ==
    /\ InitDeps /\ [][DepsNext]_vars
    /\ WF_vars(DaStart) /\ WF_vars(DaReturn)
    /\ ([]<>(~LoadEnabled) \/ []<><<DaLoad>>_vars)

GitNext == GetGitDiff

InitGit == GitInit /\ ChunkIdle /\ RelayIdle /\ ShareIdle /\ FilesIdle /\ DepsIdle /\ BinIdle /\ AuthIdle /\ ProjectIdle

SpecGit == InitGit /\ [][GitNext]_vars

GitInfoNext == GetGitInfo

InitGitInfo == GitInfoInit /\ DiffIdle /\ ChunkIdle /\ RelayIdle /\ ShareIdle /\ FilesIdle /\ DepsIdle /\ BinIdle /\ AuthIdle /\ ProjectIdle

SpecGitInfo == InitGitInfo /\ [][GitInfoNext]_vars

BinNext == StoreFile

InitBin == BinInit /\ ChunkIdle /\ RelayIdle /\ ShareIdle /\ FilesIdle /\ DepsIdle /\ GitIdle /\ AuthIdle /\ ProjectIdle

SpecBin == InitBin /\ [][BinNext]_vars

AuthNext ==
    \/ Listening
    \/ ListenError
    \/ Connect
    \/ Disconnect
    \/ HandleRequest
    \/ Timeout
    \/ CloseEvent

InitAuth ==
    AuthInit /\ ChunkIdle /\ RelayIdle /\ ShareIdle /\ FilesIdle /\ DepsIdle /\ GitIdle /\ BinIdle
        /\ ProjectIdle

SpecAuth == InitAuth /\ [][AuthNext]_vars

ProgressNext == UploadProgress

InitProgress ==
    ProgressInit /\ ChunkerIdle /\ RelayIdle /\ ShareIdle /\ FilesIdle /\ DepsIdle /\ GitIdle
        /\ BinIdle /\ AuthIdle /\ ProjectIdle

SpecProgress == InitProgress /\ [][ProgressNext]_vars

ProjectNext ==
    \/ ApStart
    \/ ApAnalyzed

InitProject ==
    ProjectInit /\ ChunkIdle /\ RelayIdle /\ ShareIdle /\ FilesIdle /\ DepsIdle /\ GitIdle /\ BinIdle
        /\ AuthIdle

SpecProject == InitProject /\ [][ProjectNext]_vars

----------------------------------------------------------------------------
(* C1: chunkFiles(F, M) partitions F: every key of F is in exactly one     *)
(* chunk with its original entry, no chunk holds a key absent from F, no    *)
(* chunk is empty, and every chunk's aggregate size is <= M unless the      *)
(* chunk consists of exactly one file whose own size exceeds M.             *)
ChunkOk(c, M) ==
    \/ calculateTotalSize(c) <= M
    \/ (Len(c) = 1 /\ getFileSize(c[1]) > M)

C1_ChunksPartition ==
    cfPc = "done" =>
        LET all == Flatten(cfChunks) IN
        /\ Len(all) = Len(cfFiles)
        /\ Range(all) = Range(cfFiles)
        /\ \A i, j \in 1..Len(all) : i # j => all[i].path # all[j].path
        /\ \A k \in 1..Len(cfChunks) : Len(cfChunks[k]) > 0 /\ ChunkOk(cfChunks[k], cfMax)

\* a run with an oversize file in a chunk of its own next to a chunk of
\* several files
C1_Witness ==
    /\ cfPc = "done"
    /\ Len(cfChunks) >= 2
    /\ \E k \in 1..Len(cfChunks) : Len(cfChunks[k]) = 1 /\ getFileSize(cfChunks[k][1]) > cfMax
    /\ \E k \in 1..Len(cfChunks) : Len(cfChunks[k]) >= 2

----------------------------------------------------------------------------
(* The lines of a response text, and its reading as a sequence of events    *)
(* (what the server meant), used to state the relay claims.                 *)

StreamLines(text) ==
    LET groups == SplitNL(text, <<>>, <<>>)
    IN [i \in 1..(Len(groups) - 1) |-> LineOf(groups[i])]

IsValidData(line) == line.t = "data" /\ line.json.valid

\* k progress events (labelled `progress`, or un-labelled with a step field)
\* followed by a `complete` event: [ok, progress, complete]
RECURSIVE ProgressThenComplete(_, _)
ProgressThenComplete(lines, acc) ==
    IF lines = <<>> THEN [ok |-> FALSE, progress |-> acc, complete |-> EmptyPayload]
    ELSE IF Head(lines).t = "blank" THEN ProgressThenComplete(Tail(lines), acc)
    ELSE IF Head(lines) = EventLine("progress") /\ Len(lines) >= 2 /\ IsValidData(lines[2])
    THEN ProgressThenComplete(SubSeq(lines, 3, Len(lines)), Append(acc, lines[2].json))
    ELSE IF IsValidData(Head(lines)) /\ Truthy(Head(lines).json.step)
    THEN ProgressThenComplete(Tail(lines), Append(acc, Head(lines).json))
    ELSE IF Head(lines) = EventLine("complete") /\ Len(lines) >= 2 /\ IsValidData(lines[2])
    THEN [ok |-> TRUE, progress |-> acc, complete |-> lines[2].json]
    ELSE [ok |-> FALSE, progress |-> acc, complete |-> EmptyPayload]

\* the behaviour of the loop when the whole text arrives in one read
SingleRead(mode, text) ==
    LET st == ProcessRead(mode, [buffer |-> <<>>, calls |-> <<>>, outcome |-> Pending], text)
    IN IF text # <<>> /\ st.outcome # Pending
       THEN <<st.calls, st.outcome>>
       ELSE <<st.calls, EndOutcome(mode)>>

EndedMessages ==
    {<<"Share stream ended without completion">>,
     <<"Chunked share stream ended without completion">>}

(* C4: for a stream of k progress events followed by a complete event the   *)
(* relay (callShareWithSSE) invokes the progress callback once per progress *)
(* event, in order, with that event's (percentage, step), and resolves with *)
(* the complete event's payload.                                            *)
C4_ProgressThenComplete ==
    LET shape == ProgressThenComplete(StreamLines(stream), <<>>) IN
    (rMode = "single" /\ rPc = "done" /\ shape.ok) =>
        /\ calls = [i \in 1..Len(shape.progress) |->
                      [cb |-> "progress", pct |-> PctOrZero(shape.progress[i]),
                       step |-> OrElse(shape.progress[i].step, "Processing...")]]
        /\ outcome = [kind |-> "resolved", inflightUrl |-> shape.complete.inflightUrl]

(* C5: when the relay handles an error event with valid JSON it invokes the *)
(* error callback once with the server's message and the operation fails    *)
(* with that message; nothing after the error event is processed.           *)
C5_ErrorEventFails ==
    \A i \in 1..Len(calls) :
        calls[i].cb = "error" =>
            /\ i = Len(calls)
            /\ outcome = [kind |-> "rejected", message |-> <<calls[i].msg>>]

(* C6: the callbacks invoked and the final outcome depend only on the text  *)
(* of the stream, not on how it is split into reads: they equal those of    *)
(* delivering the whole text in a single read.                              *)
C6_SplitIndependent ==
    rPc = "done" => <<calls, outcome>> = SingleRead(rMode, stream)

(* C7: if the stream closes before a complete event was handled, the        *)
(* operation fails with a "stream ended without completion" error and does  *)
(* not report success, in the single-shot and in the chunked finalize       *)
(* stream.                                                                  *)
C7_EndedWithoutCompletion ==
    sawDone =>
        /\ rPc = "done"
        /\ outcome.kind = "rejected"
        /\ outcome.message \in EndedMessages
        /\ (rMode = "chunked") = (outcome.message = <<"Chunked share stream ended without completion">>)

\* the chunked finalize stream closed after a progress event was relayed
C7_Witness ==
    /\ sawDone
    /\ rMode = "chunked"
    /\ Len(calls) >= 1
    /\ calls[1].cb = "progress"

----------------------------------------------------------------------------
(* Claims about one share invocation (Spec)                                 *)

IsOk(k) == k <= Len(replies) /\ replies[k].kind = "ok"

(* C2: in callChunkedShare the upload of chunk i (chunkIndex = i,           *)
(* totalChunks = N) is issued only after init and the uploads of all        *)
(* chunks j < i have each returned a success response; at most one request  *)
(* is in flight; the indexes 0..N-1 are uploaded once each in ascending     *)
(* order; finalize is issued only after all N uploads succeeded.            *)
C2_SequentialUploads ==
    /\ Cardinality(inflight) <= 1
    /\ Len(sent) - Len(replies) = Cardinality(inflight)
    /\ \A p \in 1..Len(sent) :
        /\ sent[p].kind = "upload" =>
            /\ sent[p].totalChunks = Len(chunks)
            /\ sent[p].chunkIndex \in 0..(Len(chunks) - 1)
            /\ sent[p].files = chunks[sent[p].chunkIndex + 1]
            /\ p > 1
            /\ IsOk(p - 1)
            /\ IF sent[p].chunkIndex = 0
               THEN sent[p - 1].kind = "init"
               ELSE /\ sent[p - 1].kind = "upload"
                    /\ sent[p - 1].chunkIndex = sent[p].chunkIndex - 1
        /\ sent[p].kind = "finalize" =>
            /\ p > 1
            /\ IsOk(p - 1)
            /\ sent[p - 1].kind = "upload"
            /\ sent[p - 1].chunkIndex = Len(chunks) - 1

\* three chunks were uploaded and the finalize request was sent
C2_Witness ==
    /\ Len(chunks) = 3
    /\ Len(sent) >= 1
    /\ sent[Len(sent)].kind = "finalize"

(* C3: a non-success HTTP status on init, on the upload of a chunk or on    *)
(* finalize ends the share in failure at once: it is the last request sent, *)
(* and the error returned to the caller contains the response body.         *)
C3_FailureIsFatal ==
    \A p \in 1..Len(replies) :
        (replies[p].kind = "status" /\ sent[p].kind \in {"init", "upload", "finalize"}) =>
            /\ p = Len(sent)
            /\ hPc = "returned"
            /\ hResult.isError
            /\ replies[p].body \in Range(hResult.text)

\* the upload of the second chunk was answered with a non-success status
C3_Witness ==
    /\ hPc = "returned"
    /\ Len(replies) >= 1
    /\ replies[Len(replies)] = [kind |-> "status", body |-> "quota exceeded"]
    /\ sent[Len(replies)].kind = "upload"
    /\ sent[Len(replies)].chunkIndex = 1

(* C8: within one share invocation each remote request (health probe, POST  *)
(* /share, chunked init, the upload of each chunk index, finalize) is sent   *)
(* at most once; after any failure the invocation returns an error result   *)
(* without issuing another request.                                         *)
RequestKey(r) == <<r.kind, r.chunkIndex>>

C8_NoRetry ==
    /\ \A p, q \in 1..Len(sent) : p # q => RequestKey(sent[p]) # RequestKey(sent[q])
    /\ \A p \in 1..Len(replies) :
        replies[p].kind # "ok" =>
            /\ p = Len(sent)
            /\ hPc = "returned"
            /\ hResult.isError
    /\ outcome.kind = "rejected" => (inflight = {} /\ hPc \in {"idle", "stream", "returned"})
    /\ (hPc = "returned" /\ hResult.isError) => inflight = {}

\* the stream of a chunked share of two chunks failed, and the handler
\* returned the error
C8_Witness ==
    /\ hPc = "returned"
    /\ hResult.isError
    /\ Len(sent) = 5
    /\ sent[5].kind = "finalize"
    /\ IsOk(5)

----------------------------------------------------------------------------
(* C9: no file map returned by readProjectFiles or readSpecificFiles holds  *)
(* a key whose file name starts with ".env" or contains ".env.", whatever   *)
(* the directory holds and whatever paths are requested, with or without    *)
(* the essential config files.                                              *)
EnvNamed(fileName) ==
    \/ StartsWith(fileName, <<".", "e", "n", "v">>)
    \/ Contains(fileName, <<".", "e", "n", "v", ".">>)

C9_NoEnvKeys ==
    rfCall # NoCall => \A key \in DOMAIN rfResult : ~EnvNamed(basename(key))

(* C10: readSpecificFiles(root, paths, TRUE) returns package.json, and any  *)
(* other essential config file, whenever it is a readable regular file      *)
(* directly under root, for every paths list, also one not mentioning it.   *)
C10_EssentialsIncluded ==
    (rfCall.op = "readSpecificFiles" /\ rfCall.includeEssentials) =>
        \A i \in 1..Len(ESSENTIAL_CONFIG_FILES) :
            LET name == ESSENTIAL_CONFIG_FILES[i]
            IN  NodeKind(<<name>>) = "file" =>
                    /\ name \in DOMAIN rfResult
                    /\ rfResult[name] = <<name>>

C10_Witness ==
    /\ rfCall.op = "readSpecificFiles"
    /\ rfCall.includeEssentials
    /\ <<"p", "a", "c", "k", "a", "g", "e", ".", "j", "s", "o", "n">> \notin rfCall.filePaths
    /\ rfCall.filePaths # {}
    /\ NodeKind(<<<<"p", "a", "c", "k", "a", "g", "e", ".", "j", "s", "o", "n">>>>) = "file"
    /\ <<"p", "a", "c", "k", "a", "g", "e", ".", "j", "s", "o", "n">> \in DOMAIN rfResult

----------------------------------------------------------------------------
(* C11: the localFiles list returned by analyzeDependencies contains every  *)
(* entry point, for every project, alias map and entry list, also when an   *)
(* entry point does not exist on disk and when the engine fails part-way.   *)
C11_EntryPointsIncluded ==
    daPc = "returned" =>
        \A i \in 1..Len(daInput.entryPoints) :
            daInput.entryPoints[i] \in Range(daResult.localFiles)

C11_Witness ==
    /\ daPc = "returned"
    /\ daFailed
    /\ daLoaded # {}
    /\ \E i \in 1..Len(daInput.entryPoints) :
        /\ NodeKind(ResolveFrom(<<>>, daInput.entryPoints[i])) = "none"
        /\ daInput.entryPoints[i] \in Range(daResult.localFiles)

----------------------------------------------------------------------------
(* C12: in a chunked share of 3 chunks the upload progress values reported  *)
(* for the chunks are strictly increasing and each lies in 10..40.          *)
UploadPcts ==
    LET IsUpload(c) == c.cb = "progress" /\ c.step = "Uploading chunk"
        uploads == SelectSeq(calls, IsUpload)
    IN  [i \in 1..Len(uploads) |-> uploads[i].pct]

C12_UploadProgressIncreasing ==
    Len(chunks) = 3 =>
        /\ \A i \in 1..Len(UploadPcts) : UploadPcts[i] \in 10..40
        /\ \A i, j \in 1..Len(UploadPcts) : i < j => UploadPcts[i] < UploadPcts[j]

C12_Witness ==
    /\ Len(chunks) = 3
    /\ Len(UploadPcts) = 3
    /\ hPc = "finalize"

----------------------------------------------------------------------------
(* C13: during the finalize stream a server percentage p in 0..100 is       *)
(* reported to the caller as 45 + floor(55*p/100): the value lies in        *)
(* 45..100, 0 is reported as 45, 100 as 100, and no smaller server          *)
(* percentage is reported as a larger value.                                *)
ServerPct == stream[3].l.json.percentage[1]

ReportedPcts == ProgressValues(calls)

C13_FinalizeRemap ==
    \A i \in 1..Len(ReportedPcts) :
        LET reported == ReportedPcts[i] IN
        /\ reported = 45 + ((55 * ServerPct) \div 100)
        /\ reported \in 45..100
        /\ (ServerPct = 0 => reported = 45)
        /\ (ServerPct = 100 => reported = 100)
        /\ \A q \in 0..ServerPct : MapPct("chunked", PctPayload(q, "x")) <= reported

C13_Witness ==
    /\ ServerPct = 37
    /\ ReportedPcts = <<65>>
    /\ rPc = "done"

----------------------------------------------------------------------------
(* C14: what getGitDiff returns for a feature branch with zero commits      *)
(* ahead of its base ("no changes") differs from what it returns for a      *)
(* repository in which no base branch can be determined.                    *)
NoChanges(r, baseBranch) ==
    LET base == IF Falsy(baseBranch) THEN getDefaultBranch(r) ELSE baseBranch
    IN  /\ r.isRepo
        /\ ~Falsy(base)
        /\ RefOf(base) \in r.refs
        /\ r.current \in r.refs \ {RefOf(base)}
        /\ r.diffLen = 0

CannotDetermineBase(r, baseBranch) ==
    /\ r.isRepo
    /\ Falsy(baseBranch)
    /\ Falsy(getDefaultBranch(r))

C14_NoChangesDistinguished ==
    (gitPc = "returned" /\ NoChanges(gitRepo, gitArgs.baseBranch)) =>
        \A r \in Repos :
            CannotDetermineBase(r, Null) => getGitDiff(r, gitArgs.maxBytes, Null) # gitResult

----------------------------------------------------------------------------
(* C15: a file is stored as {content: base64, encoding: "base64"} exactly   *)
(* when its extension, lower-cased, is in the binary extension list or,     *)
(* for any other extension, its first min(length, 8192) bytes hold a null   *)
(* byte or more than 10% control bytes (< 32 other than 9, 10, 13);         *)
(* otherwise it is stored as a plain UTF-8 string.                          *)
RECURSIVE Sample(_, _)
Sample(buf, n) ==
    IF buf = <<>> \/ n = 0 THEN <<>>
    ELSE <<[byte |-> Head(buf).byte, count |-> Min(Head(buf).count, n)]>>
         \o Sample(Tail(buf), n - Min(Head(buf).count, n))

CountIn(sample, bytes) ==
    SumSeq([i \in 1..Len(sample) |-> IF sample[i].byte \in bytes THEN sample[i].count ELSE 0])

ControlBytes == (0..31) \ {9, 10, 13}

BinaryByClaim(fileName, buf) ==
    LET sample == Sample(buf, Min(BufferLength(buf), 8192))
    IN  \/ toLowerCase(extname(fileName)) \in BINARY_EXTENSIONS
        \/ CountIn(sample, {0}) > 0
        \/ 10 * CountIn(sample, ControlBytes) > BufferLength(sample)

C15_BinaryExactlyWhen ==
    binPc = "stored" =>
        /\ (binEntry.object /\ binEntry.encoding = "base64") <=> BinaryByClaim(binName, binBuffer)
        /\ ~BinaryByClaim(binName, binBuffer) => (~binEntry.object /\ binEntry.encoding = "utf-8")

\* a null byte behind an unrecognised extension, stored as base64
C15_Witness ==
    /\ binPc = "stored"
    /\ ~isBinaryFile(binName)
    /\ binBuffer = <<[byte |-> 65, count |-> 9], [byte |-> 0, count |-> 1]>>
    /\ binEntry.encoding = "base64"

----------------------------------------------------------------------------
(* The step log of one share invocation *)
StepsAt(op, res) == {i \in 1..Len(hSteps) : hSteps[i] = Step(op, res)}

StepsOf(op) == {i \in 1..Len(hSteps) : hSteps[i].op = op}

SentKinds == {sent[i].kind : i \in 1..Len(sent)}

TransferKinds == {"share", "init", "upload", "finalize"}

----------------------------------------------------------------------------
(* C16: in one share invocation authenticate() is started exactly when      *)
(* getAuthData() found nothing, and at most once; when it rejects, the      *)
(* invocation has returned an error result, authenticate() was not started  *)
(* again, and no share, init, upload or finalize request was sent.          *)
C16_AuthenticateOnce ==
    /\ authCalls = Cardinality(StepsAt("authenticate", "started"))
    /\ authCalls <= 1
    /\ StepsOf("getAuthData") = {} => authCalls = 0
    /\ StepsAt("getAuthData", "found") # {} => authCalls = 0
    /\ StepsAt("getAuthData", "none") # {} => authCalls = 1
    /\ StepsAt("authenticate", "rejected") # {} =>
        /\ hPc = "returned"
        /\ hResult = ErrorResult(<<"Authentication failed - ", "timeout">>)
        /\ hSteps[Len(hSteps)] = Step("authenticate", "rejected")
        /\ SentKinds \cap TransferKinds = {}

\* nothing was stored, authenticate() rejected, the handler returned
C16_Witness ==
    /\ StepsAt("getAuthData", "none") # {}
    /\ StepsAt("authenticate", "rejected") # {}
    /\ authCalls = 1
    /\ hPc = "returned"

----------------------------------------------------------------------------
(* C17: with useStaticAnalysis set, an analysis that throws or yields no     *)
(* local files is followed by the full directory walk (readProjectFiles)    *)
(* and the share goes on to the credentials step; only an analysis that      *)
(* yields local files is followed by readSpecificFiles with the essential   *)
(* config files included.                                                    *)
C17_AnalysisNeverFatal ==
    /\ \A i \in StepsOf("analyzeProjectDependencies") :
        /\ i + 2 <= Len(hSteps)
        /\ hSteps[i + 1] = IF hSteps[i].res = "files"
                           THEN Step("readSpecificFiles", "includeEssentials")
                           ELSE Step("readProjectFiles", "walk")
        /\ hSteps[i + 2].op = "getAuthData"
        /\ hReader = hSteps[i + 1].op
        /\ hPc = "returned" /\ hResult.isError =>
               hSteps[Len(hSteps)].op \in {"authenticate", "transfer"}
    /\ \A j \in StepsOf("readSpecificFiles") :
        j > 1 /\ hSteps[j - 1] = Step("analyzeProjectDependencies", "files")

\* the analysis threw, the directory was walked, and the share succeeded
C17_Witness ==
    /\ StepsAt("analyzeProjectDependencies", "throws") # {}
    /\ hReader = "readProjectFiles"
    /\ hPc = "returned"
    /\ ~hResult.isError

----------------------------------------------------------------------------
(* C18: a transfer request (POST /share or chunked init) is sent only after  *)
(* these checks passed, in this order: the directory exists, the health      *)
(* probe succeeded, the directory is a git repository with a non-empty      *)
(* diff, and credentials are available; a failing check is the last step    *)
(* of the invocation, which returns an error result, and no later step      *)
(* (file reading, authentication, transfer) is made.                         *)
Readers == {"readProjectFiles", "readSpecificFiles"}

FailedChecks ==
    {Step("existsSync", "false"), Step("health", "down"), Step("getGitInfo", "norepo"),
     Step("getGitInfo", "nodiff"), Step("authenticate", "rejected")}

CredentialsAt ==
    StepsAt("getAuthData", "found") \cup StepsAt("authenticate", "resolved")

----------------------------------------------------------------------------
(* C19: the chunked protocol is used exactly when the sum of the content     *)
(* lengths of the assembled file map is strictly greater than 3 MiB, the    *)
(* single POST /share otherwise, and never both in one invocation.           *)
ThreeMiB == 3 * 1024 * 1024

AggregateSize == SumSeq([i \in 1..Len(hFiles) |-> hFiles[i].size])

ChunkedKinds == {"init", "upload", "finalize"}

C19_ChunkedIffOverThreshold ==
    /\ ~("share" \in SentKinds /\ SentKinds \cap ChunkedKinds # {})
    /\ StepsOf("transfer") = {} => SentKinds \cap TransferKinds = {}
    /\ \A t \in StepsOf("transfer") :
        IF AggregateSize > ThreeMiB
        THEN /\ hSteps[t].res = "callChunkedShare"
             /\ "init" \in SentKinds
             /\ "share" \notin SentKinds
        ELSE /\ hSteps[t].res = "callShareWithSSE"
             /\ "share" \in SentKinds
             /\ SentKinds \cap ChunkedKinds = {}

\* a file map of exactly 3 MiB went by the single call
C19_Witness ==
    /\ AggregateSize = ThreeMiB
    /\ Len(hFiles) = 2
    /\ "share" \in SentKinds
    /\ hPc = "returned"

----------------------------------------------------------------------------
(* C20: the listener acts only on the path /callback: a request to any      *)
(* other path is answered 404 and leaves the promise as it was; once a      *)
(* /callback request has been handled, with or without its parameters, or   *)
(* the 5-minute timer has fired, the server is no longer listening.         *)
IsCallbackRequest(entry) ==
    LET url == ParseUrl(entry.target)
    IN  ~url.failure /\ url.pathname = CallbackPath

C20_OnlyCallbackActs ==
    /\ \A i \in 1..Len(served) :
        IF IsCallbackRequest(served[i])
        THEN ~served[i].listening
        ELSE served[i].status = 404 /\ served[i].after = served[i].before
    /\ timeout = "fired" => server # "listening"

----------------------------------------------------------------------------
(* C21: a data line whose JSON cannot be parsed is skipped and the event    *)
(* label before it does not carry over: a callback or a completion comes    *)
(* only from a valid data line whose own label (the last event line with    *)
(* no data line, valid or malformed, between it and the data line) or, for  *)
(* an un-labeled line, whose step field asks for it.                         *)
LinesOfStream == StreamLines(stream)

LabelAt(lines, i) ==
    LET events == {j \in 1..(i - 1) :
                      /\ lines[j].t = "event"
                      /\ \A k \in (j + 1)..(i - 1) : lines[k].t # "data"}
    IN  IF events = {} THEN ""
        ELSE lines[CHOOSE j \in events : \A k \in events : k <= j].name

ValidDataWith(label) ==
    {i \in 1..Len(LinesOfStream) :
        /\ IsValidData(LinesOfStream[i])
        /\ LabelAt(LinesOfStream, i) = label}

C21_MalformedLineSkipped ==
    /\ \A c \in 1..Len(calls) :
        /\ (calls[c].cb = "progress" /\ calls[c].step = "Processing...") =>
               \E i \in ValidDataWith("progress") : ~Truthy(LinesOfStream[i].json.step)
        /\ calls[c].cb = "error" => ValidDataWith("error") # {}
    /\ outcome.kind = "resolved" => ValidDataWith("complete") # {}

----------------------------------------------------------------------------
(* C22: in a chunked share whose stream carries non-decreasing server       *)
(* percentages within 0..100, the percentages passed to the progress        *)
(* callback from the first chunk upload to the last analysis event are      *)
(* non-decreasing, and every analysis value exceeds every upload value.     *)
ServerPctsInOrder ==
    LET lines == StreamLines(stream)
        pcts == {i \in 1..Len(lines) : IsValidData(lines[i]) /\ lines[i].json.percentage # <<>>}
    IN  /\ \A i \in 1..Len(lines) :
               (IsValidData(lines[i]) /\ LabelAt(lines, i) \in {"progress", ""}) => i \in pcts
        /\ \A i \in pcts : lines[i].json.percentage[1] \in 0..100
        /\ \A i, j \in pcts :
               i < j => lines[i].json.percentage[1] <= lines[j].json.percentage[1]

IsProgress(c) == c.cb = "progress"

FromFirstUpload ==
    LET progress == SelectSeq(calls, IsProgress)
        uploads == {i \in 1..Len(progress) : progress[i].step = "Uploading chunk"}
    IN  IF uploads = {} THEN <<>>
        ELSE SubSeq(progress, CHOOSE i \in uploads : \A j \in uploads : i <= j, Len(progress))

AnalysisPhase(c) == c.step \notin {"Uploading chunk", "Finalizing"}

C22_ChunkedProgressMonotonic ==
    (rMode = "chunked" /\ ServerPctsInOrder) =>
        LET p == FromFirstUpload IN
        /\ \A i, j \in 1..Len(p) : i < j => p[i].pct <= p[j].pct
        /\ \A i, j \in 1..Len(p) :
               (p[i].step = "Uploading chunk" /\ AnalysisPhase(p[j])) => p[i].pct < p[j].pct

\* three chunks were uploaded and both analysis events of the stream relayed
C22_Witness ==
    /\ rMode = "chunked"
    /\ Len(chunks) = 3
    /\ stream = TwoProgress(0, 50)
    /\ Len(SelectSeq(FromFirstUpload, AnalysisPhase)) = 2
    /\ hPc = "returned"
    /\ ~hResult.isError

----------------------------------------------------------------------------
(* What a diff records about the file of a header line *)
RecordedChange(lines, i) ==
    IF i < Len(lines) /\ lines[i + 1].t \in {"deleted", "added"} THEN lines[i + 1].t
    ELSE "modified"

\* the changed files that are UI-relevant and not deleted, in diff order
RECURSIVE LiveUiFilesFrom(_, _)
LiveUiFilesFrom(lines, i) ==
    IF i > Len(lines) THEN <<>>
    ELSE (IF /\ lines[i].t = "header"
             /\ isUIRelevant(lines[i].b)
             /\ RecordedChange(lines, i) # "deleted"
          THEN <<lines[i].b>> ELSE <<>>)
         \o LiveUiFilesFrom(lines, i + 1)

LiveUiFiles ==
    IF apInput.changedFiles # <<>>
    THEN SelectSeq(apInput.changedFiles, isUIRelevant)
    ELSE IF apInput.git = "diff" THEN LiveUiFilesFrom(apInput.diff, 1)
    ELSE <<>>

EnginePaths == IF apEngineCalls = <<>> THEN <<>> ELSE apEngineCalls[1]

----------------------------------------------------------------------------
(* C23: the entry points computed by analyzeProjectDependencies are exactly *)
(* the changed files that are UI-relevant and not deleted; a file the diff  *)
(* records as deleted is never an entry point.                               *)
C23_EntryPointsLive ==
    apPc \in {"analyzing", "returned"} =>
        /\ EntryPointsOf(apFiles) = LiveUiFiles
        /\ EnginePaths = LiveUiFiles

----------------------------------------------------------------------------
(* C24: when no changed file is both UI-relevant and non-deleted,            *)
(* analyzeProjectDependencies returns empty localFiles, npmPackages,        *)
(* workspacePackages and entryPoints without calling the resolution         *)
(* engine, as a normal result.                                               *)
C24_EmptyShortCircuit ==
    LiveUiFiles = <<>> =>
        /\ apEngineCalls = <<>>
        /\ apPc \in {"call", "returned"}
        /\ apPc = "returned" =>
               /\ ~apResult.isError
               /\ apResult.entryPoints = <<>>
               /\ apResult.localFiles = <<>>
               /\ apResult.npmPackages = {}
               /\ apResult.workspacePackages = {}

----------------------------------------------------------------------------
(* C25: every import specifier of a loaded file is handled by exactly one   *)
(* bucket, the first of alias, scoped package, bare specifier, relative     *)
(* path whose pattern it matches; a specifier matching an alias and the     *)
(* scoped pattern is handled as an alias; each import adds to at most one   *)
(* of resolvedFiles, npmPackages, workspacePackages.                        *)
AliasPrefixes == {daInput.pathAliases[i][1] : i \in 1..Len(daInput.pathAliases)}

HasAliasPrefix(p) == \E a \in AliasPrefixes : Len(a) <= Len(p) /\ SubSeq(p, 1, Len(a)) = a

LooksScoped(p) == p # <<>> /\ p[1] = "@" /\ Len(Split(p, {"/"})) >= 2 /\ Split(p, {"/"})[1] # <<"@">>

BucketByPrecedence(p) ==
    IF HasAliasPrefix(p) THEN "alias"
    ELSE IF LooksScoped(p) THEN "scoped"
    ELSE IF p # <<>> /\ p[1] \notin {".", "@", "/"} THEN "bare"
    ELSE IF p # <<>> /\ p[1] = "." THEN "relative"
    ELSE "engine"

CollectionsTouched(did) ==
    Cardinality({c \in {"files", "npm", "ws"} :
                    \/ c = "files" /\ did.files # {}
                    \/ c = "npm" /\ did.npm # {}
                    \/ c = "ws" /\ did.ws # {}})

C25_OneBucketByPrecedence ==
    \A h \in daResolutions :
        /\ h.did.bucket = BucketByPrecedence(h.specifier)
        /\ h.did.bucket \in {"alias", "scoped", "bare", "relative"}
        /\ CollectionsTouched(h.did) <= 1

----------------------------------------------------------------------------
(* The files reachable from the entry points through alias or relative      *)
(* imports that each resolve to an existing file                            *)
LocalEdges(node) ==
    LET results == {OnResolve(node, p, daInput.pathAliases, daInput.monorepo) :
                        p \in ImportsOf(node)}
    IN  {r.path : r \in {x \in results : x.bucket \in {"alias", "relative"} /\ ~x.external}}

RECURSIVE ReachFrom(_)
ReachFrom(nodes) ==
    LET next == nodes \cup UNION {LocalEdges(n) : n \in nodes}
    IN  IF next = nodes THEN nodes ELSE ReachFrom(next)

EntryNodes ==
    {n \in {ResolveFrom(<<>>, daInput.entryPoints[i]) : i \in 1..Len(daInput.entryPoints)} :
        NodeKind(n) = "file"}

ReachableFiles == {relative(n) : n \in ReachFrom(EntryNodes)}

WalkedOnce == daQueue \cap daLoaded = {}

----------------------------------------------------------------------------
(* C26 as stated: whenever analyzeDependencies has returned, localFiles     *)
(* holds every file reachable from an entry point through alias or          *)
(* relative imports that resolve to existing files; the resolution          *)
(* terminates, also on import cycles and self-imports, and no file is       *)
(* walked twice.                                                            *)
C26_ClosureAlways ==
    /\ [](daPc = "returned" => ReachableFiles \subseteq Range(daResult.localFiles))
    /\ []WalkedOnce
    /\ <>(daPc = "returned")

(* C26 amended: when the engine's build completes without error, localFiles *)
(* holds every reachable file; in every case the resolution terminates and  *)
(* no file is walked twice.                                                 *)
C26_ClosureWhenBuildSucceeds ==
    /\ [](daPc = "returned" /\ ~daFailed =>
              ReachableFiles \subseteq Range(daResult.localFiles))
    /\ []WalkedOnce
    /\ <>(daPc = "returned")

\* the cycle App.tsx -> ui/Button.tsx -> App.tsx and the self-import of
\* ui/Button.tsx were walked, and src/util.ts was reached through the alias
C26_Witness ==
    /\ daPc = "returned"
    /\ ~daFailed
    /\ Cardinality(daLoaded) = 3
    /\ Cardinality(ReachableFiles) = 3
    /\ ReachableFiles \subseteq Range(daResult.localFiles)

----------------------------------------------------------------------------
(* The base branch by the stated order: the explicit argument (an empty     *)
(* string names no branch), else main if it resolves, else master if it     *)
(* resolves, else the branch refs/remotes/origin/HEAD points to, else none  *)
BaseByOrder(r, baseBranch) ==
    IF ~baseBranch.null /\ baseBranch.text # <<>> THEN baseBranch.text[1]
    ELSE IF "main" \in r.refs THEN "main"
    ELSE IF "master" \in r.refs THEN "master"
    ELSE r.originHead

MergeBaseRefs == {gitCalls[i].ref : i \in {j \in 1..Len(gitCalls) : gitCalls[j].op = "merge-base"}}

(* C27: in a repository, getGitDiff takes as base branch the explicit       *)
(* baseBranch if given, else main if it resolves, else master if it         *)
(* resolves, else the target of refs/remotes/origin/HEAD: this is the       *)
(* branch it asks the merge base of and the baseBranch of a result.  With   *)
(* none available, or with the current branch equal to the base, it returns *)
(* null without asking for a merge base.                                    *)
C27_BaseBranchOrder ==
    (gitPc = "returned" /\ gitRepo.isRepo) =>
        LET base == BaseByOrder(gitRepo, gitArgs.baseBranch)
        IN  IF base = None \/ gitRepo.current = base
            THEN gitResult = Null /\ MergeBaseRefs = {}
            ELSE /\ MergeBaseRefs = {base}
                 /\ gitResult # Null => gitResult.baseBranch = <<base>>

\* main does not resolve, master does, and the diff is taken against master
C27_Witness ==
    /\ gitPc = "returned"
    /\ gitArgs.baseBranch = Null
    /\ "main" \notin gitRepo.refs
    /\ gitRepo.originHead = "main"
    /\ gitResult # Null
    /\ gitResult.baseBranch = <<"master">>
    /\ MergeBaseRefs = {"master"}

----------------------------------------------------------------------------
(* The text `git diff <merge-base>...HEAD` shows for the repository, and    *)
(* the summary `git diff --stat` shows for it                               *)
OriginalDiff == SubSeq(DiffChars, 1, gitRepo.diffLen)

OriginalStat == IF gitRepo.diffLen = 0 THEN <<>> ELSE <<"1 file changed">>

TruncationMarker == "\n... (truncated)"

(* C28: a result of getGitDiff for a diff of length L has isTruncated       *)
(* exactly when L > maxBytes; when truncated its diff is the first maxBytes *)
(* characters of the original followed by the marker, otherwise the         *)
(* original; totalBytes is L, and diffStat is the summary either way.       *)
C28_TruncationExact ==
    (gitPc = "returned" /\ gitResult # Null) =>
        LET L == Len(OriginalDiff)
        IN  /\ gitResult.isTruncated = (L > gitArgs.maxBytes)
            /\ gitResult.diff =
                  IF L > gitArgs.maxBytes
                  THEN SubSeq(OriginalDiff, 1, gitArgs.maxBytes) \o <<TruncationMarker>>
                  ELSE OriginalDiff
            /\ gitResult.totalBytes = L
            /\ gitResult.diffStat = OriginalStat

\* a diff of three characters under a budget of two
C28_Witness ==
    /\ gitPc = "returned"
    /\ gitResult # Null
    /\ gitArgs.maxBytes = MaxBytes
    /\ gitRepo.diffLen = MaxBytes + 1
    /\ gitResult.isTruncated
    /\ Len(gitResult.diff) = MaxBytes + 1

----------------------------------------------------------------------------
(* No distinguishable base/current pair: the current branch is the base     *)
(* branch, or the base branch does not exist                                *)
NoDistinctPair(r, result) ==
    result.currentBranch = <<result.baseBranch>> \/ result.baseBranch \notin r.heads

UncommittedDiff(r) == SubSeq(DirtyChars, 1, r.dirty) \o <<"\n">>

(* C29: when getGitInfo finds no distinguishable base/current pair in a     *)
(* repository with a commit and uncommitted work, the diff it returns is    *)
(* the output of `git diff HEAD`, which is not empty.                       *)
C29_FallbackToDiffHead ==
    (/\ giPc = "returned"
     /\ giRepo.isRepo /\ giRepo.born /\ giRepo.dirty > 0
     /\ NoDistinctPair(giRepo, giResult)) =>
        giResult.diff = UncommittedDiff(giRepo) /\ giResult.diff # <<>>

----------------------------------------------------------------------------
(* A listed path that names a readable regular file of the project: a path  *)
(* ending in a separator names a directory                                  *)
ReadableRegularFile(p) ==
    /\ p # <<>>
    /\ p[Len(p)] \notin Separators
    /\ NodeKind(Resolve(p)) = "file"

(* C30: readSpecificFiles returns whatever the listed paths are; a listed   *)
(* path that does not exist, is not a regular file or cannot be read is not *)
(* a key of the result, and every listed path that is a readable regular    *)
(* file and is not excluded is a key of the result.                         *)
C30_ListedPathsNeverFatal ==
    rfCall.op = "readSpecificFiles" =>
        /\ ~rfCall.threw
        /\ \A p \in rfCall.filePaths :
              /\ ~ReadableRegularFile(p) => p \notin DOMAIN rfResult
              /\ (ReadableRegularFile(p) /\ ~shouldExclude(p)) => p \in DOMAIN rfResult

\* one call with a listed path that is stored, one that names a directory
\* and one that names nothing
C30_Witness ==
    /\ rfCall.op = "readSpecificFiles"
    /\ ~rfCall.threw
    /\ \E p \in rfCall.filePaths : p \in DOMAIN rfResult
    /\ \E p \in rfCall.filePaths : ~shouldExclude(p) /\ Stat(p) = "dir"
    /\ \E p \in rfCall.filePaths : ~shouldExclude(p) /\ Stat(p) = "none"

----------------------------------------------------------------------------
(* The directories no key may lie under, and the file names no key may have *)
ExcludedDirNames ==
    {<<".", "g", "i", "t">>,
     <<"n", "o", "d", "e", "_", "m", "o", "d", "u", "l", "e", "s">>,
     <<".", "n", "e", "x", "t">>,
     <<"d", "i", "s", "t">>,
     <<"b", "u", "i", "l", "d">>,
     <<"o", "u", "t">>,
     <<".", "o", "u", "t", "p", "u", "t">>,
     <<".", "s", "v", "e", "l", "t", "e", "-", "k", "i", "t">>,
     <<".", "v", "e", "r", "c", "e", "l">>,
     <<".", "t", "u", "r", "b", "o">>,
     <<".", "c", "a", "c", "h", "e">>,
     <<".", "p", "a", "r", "c", "e", "l", "-", "c", "a", "c", "h", "e">>,
     <<".", "v", "i", "t", "e">>,
     <<".", "n", "u", "x", "t">>,
     <<".", "e", "x", "p", "o">>,
     <<"c", "o", "v", "e", "r", "a", "g", "e">>,
     <<".", "n", "y", "c", "_", "o", "u", "t", "p", "u", "t">>}

LockFileNames ==
    {<<"p", "a", "c", "k", "a", "g", "e", "-", "l", "o", "c", "k", ".", "j", "s", "o", "n">>,
     <<"y", "a", "r", "n", ".", "l", "o", "c", "k">>,
     <<"p", "n", "p", "m", "-", "l", "o", "c", "k", ".", "y", "a", "m", "l">>,
     <<"b", "u", "n", ".", "l", "o", "c", "k", "b">>}

OsArtifactNames ==
    {<<".", "D", "S", "_", "S", "t", "o", "r", "e">>,
     <<"T", "h", "u", "m", "b", "s", ".", "d", "b">>}

\* the directory segments of a key, by the separators of the platform
DirSegments(key) ==
    LET segments == Split(key, Separators)
    IN  {segments[i] : i \in 1..(Len(segments) - 1)}

SurvivesExclusion(key) ==
    /\ key # <<>>
    /\ key[1] \notin Separators
    /\ key # <<".", "g", "i", "t">>
    /\ DirSegments(key) \cap ExcludedDirNames = {}
    /\ <<".", ".">> \notin DirSegments(key)
    /\ basename(key) \notin LockFileNames \cup OsArtifactNames
    /\ ~EndsWith(basename(key), <<".", "l", "o", "g">>)

(* C31: every key of a file map returned by readProjectFiles or             *)
(* readSpecificFiles is a root-relative path that lies under no .git,       *)
(* node_modules, build-output, cache or coverage directory at any depth and *)
(* is no lockfile, log file or OS artifact.                                 *)
C31_KeysSurviveExclusion ==
    rfCall # NoCall => \A key \in DOMAIN rfResult : SurvivesExclusion(key)

----------------------------------------------------------------------------
(* What each settling event gives: the promise's outcome is the one of the  *)
(* first event that settled it                                              *)
Settled == promise.state # "pending"

\* the process has stopped, or the timer will not fire any more
NothingLeftToSettle == server = "crashed" \/ timeout \in {"fired", "cleared"}

SettlingRequests == {i \in 1..Len(served) : served[i].before = "pending" /\ served[i].after # "pending"}

OutcomeMatchesEvent ==
    /\ \A i \in 1..Len(served) :
          (served[i].before = "pending" /\ served[i].status = 200) => served[i].after = "resolved"
    /\ \A i \in 1..Len(served) :
          (served[i].before = "pending" /\ served[i].status = 400) => served[i].after = "rejected"
    /\ promise.state = "resolved" =>
          \E i \in SettlingRequests :
              /\ served[i].status = 200
              /\ promise.value = served[i].query.api_key.text \o served[i].query.user_id.text
    /\ promise = Failure("Missing API key or user ID in callback") =>
          \E i \in SettlingRequests : served[i].status = 400
    /\ promise = Failure("Failed to start auth server") => server = "failed"
    /\ promise = Failure("Authentication timed out after 5 minutes") => timeout = "fired"
    /\ Cardinality(SettlingRequests) <= 1

(* C32: authenticate settles, and settles once: when the process has        *)
(* stopped or the 5-minute timer is no longer pending the promise has       *)
(* settled; it resolves with the credentials of a /callback request that    *)
(* carried both parameters, rejects after one that did not, rejects on a    *)
(* listener error and otherwise on the timeout; once settled, its outcome   *)
(* never changes.                                                           *)
C32_SettlesExactlyOnce ==
    /\ [](NothingLeftToSettle => Settled)
    /\ []OutcomeMatchesEvent
    /\ [][Settled => promise' = promise]_vars

----------------------------------------------------------------------------
(* The record a /callback request with both parameters asks to store        *)
RecordOf(query) ==
    [present |-> TRUE, apiKey |-> query.api_key.text, userId |-> query.user_id.text,
     email |-> Null]

RequestHandled == Len(served') = Len(served) + 1

(* C33: the credential file changes only in the step that handles a         *)
(* /callback request carrying both api_key and user_id, and after that      *)
(* step it holds exactly the record of that request, with nothing of the    *)
(* old record; every other step leaves it as it was.                        *)
C33_FileWrittenOnlyByValidCallback ==
    [][/\ authFile' # authFile =>
            RequestHandled /\ served'[Len(served')].status = 200
       /\ (RequestHandled /\ served'[Len(served')].status = 200) =>
            authFile' = RecordOf(served'[Len(served')].query)]_vars

\* a callback without user_id was answered 400, then one with both
\* parameters replaced the record
C33_Witness ==
    /\ Len(served) = 2
    /\ served[1].status = 400
    /\ served[2].status = 200
    /\ authFile = RecordOf(served[2].query)
    /\ timeout # "fired"

----------------------------------------------------------------------------
(* The share or init requests the service answered with a non-success       *)
(* status                                                                   *)
RejectedByService ==
    {k \in 1..Len(replies) :
        /\ sent[k].kind \in {"share", "init"}
        /\ replies[k].kind \notin {"ok", "network"}}

(* C34: when getAuthData() found stored credentials and the service         *)
(* rejected the share or the chunked-init request with a non-success        *)
(* status, the invocation has made one interactive re-authentication        *)
(* attempt before it returns.                                               *)
C34_ReauthenticatesOnRejection ==
    (/\ hPc = "returned"
     /\ StepsAt("getAuthData", "found") # {}
     /\ RejectedByService # {}) =>
        /\ authCalls = 1
        /\ StepsAt("authenticate", "started") # {}

----------------------------------------------------------------------------
(* The init request and the upload requests of the invocation               *)
InitRequests == {p \in 1..Len(sent) : sent[p].kind = "init"}

UploadRequests == {p \in 1..Len(sent) : sent[p].kind = "upload"}

RECURSIVE SumOver(_, _)
SumOver(positions, f) ==
    IF positions = {} THEN 0
    ELSE LET p == CHOOSE q \in positions : TRUE
         IN  f[p] + SumOver(positions \ {p}, f)

UploadedKeyCount == SumOver(UploadRequests, [p \in UploadRequests |-> Len(sent[p].files)])

SuccessfulRun == hPc = "returned" /\ ~hResult.isError

(* C35: the init request of a chunked share announces, as totalChunks, the  *)
(* totalChunks field of every upload request and the number of upload       *)
(* requests of a successful run; as totalFiles, the number of keys of the   *)
(* input file map and, in a successful run, the sum of the key counts of    *)
(* the uploaded chunks; as totalSize, the aggregate size of the input map.  *)
C35_InitCountsAgree ==
    \A k \in InitRequests :
        /\ \A p \in UploadRequests : sent[p].totalChunks = sent[k].totalChunks
        /\ sent[k].totalFiles = Len(hFiles)
        /\ sent[k].totalSize = AggregateSize
        /\ SuccessfulRun =>
              /\ Cardinality(UploadRequests) = sent[k].totalChunks
              /\ UploadedKeyCount = sent[k].totalFiles

\* a successful chunked share of three files in two chunks
C35_Witness ==
    /\ SuccessfulRun
    /\ InitRequests # {}
    /\ Len(hFiles) = 3
    /\ Cardinality(UploadRequests) = 2
    /\ UploadedKeyCount = 3

----------------------------------------------------------------------------
(* The two relays on the same input                                         *)
\* the percentages of the single-shot callbacks on the finalize scale
Remapped(cs) ==
    [i \in 1..Len(cs) |->
        IF cs[i].cb = "progress"
        THEN [cs[i] EXCEPT !.pct = 45 + ((@ * 55) \div 100)]
        ELSE cs[i]]

\* what one read of `value` makes a relay do from the current buffer
ReadBy(mode, value) ==
    ProcessRead(mode, [buffer |-> buffer, calls |-> <<>>, outcome |-> Pending], value)

\* the callbacks the step invoked
NewCalls == SubSeq(calls', Len(calls) + 1, Len(calls'))

----------------------------------------------------------------------------
(* C37: in a share invocation whose stream carries non-decreasing server    *)
(* percentages within 0..100, the progress values sent to the client as     *)
(* progress notifications, from the one of "Starting share" to the one of   *)
(* "Share complete!", are non-decreasing, on the single-shot path and on    *)
(* the chunked path.                                                        *)
C37_NotificationsNonDecreasing ==
    ServerPctsInOrder =>
        \A i, j \in 1..Len(notifs) : i < j => notifs[i] <= notifs[j]

\* the same on the chunked path alone and on the single-shot path alone
ChunkedNotificationsNonDecreasing ==
    (hPc # "start" /\ needsChunkedUpload(hFiles)) => C37_NotificationsNonDecreasing

SingleShotNotificationsNonDecreasing ==
    (hPc # "start" /\ ~needsChunkedUpload(hFiles)) => C37_NotificationsNonDecreasing

----------------------------------------------------------------------------
(* The requests that wrote the credential file                              *)
Writes == {i \in 1..Len(served) : served[i].status = 200}

(* C38: once authenticate has settled, no callback request that is still    *)
(* delivered to the listener changes the stored credentials: every write of *)
(* the credential file was made by a request handled while the promise was  *)
(* pending, there is at most one write per call, and only in a call that    *)
(* resolves.                                                                *)
C38_NoWriteAfterSettled ==
    /\ \A i \in Writes : served[i].before = "pending"
    /\ Cardinality(Writes) <= 1
    /\ Writes # {} => promise.state = "resolved"

\* the same on a runtime whose server.close() ends the idle connections
NoWriteAfterSettledClosingIdle == runtime = "closesIdle" => C38_NoWriteAfterSettled

\* the same for a call that the timeout has rejected
NoWriteAfterTimeout ==
    (timeout = "fired" /\ promise.value = <<"Authentication timed out after 5 minutes">>) =>
        Writes = {}

----------------------------------------------------------------------------
(* C39: for every chunk count N >= 1 and every index i in 0..N-1 the upload *)
(* progress reported for chunk i is 10 + floor(30*i/N), that is the integer *)
(* p with (p - 10) * N <= 30 * i < (p - 9) * N; it lies in 10..39, is       *)
(* non-decreasing in i, and strictly increasing in i whenever N <= 30.      *)
C39_UploadProgressFormula ==
    /\ \A k \in 1..Len(upPcts) :
          /\ (upPcts[k] - 10) * upCount <= 30 * (k - 1)
          /\ 30 * (k - 1) < (upPcts[k] - 9) * upCount
          /\ upPcts[k] \in 10..39
    /\ \A j, k \in 1..Len(upPcts) : j < k => upPcts[j] <= upPcts[k]
    /\ upCount <= 30 => \A j, k \in 1..Len(upPcts) : j < k => upPcts[j] < upPcts[k]

\* thirty chunks were uploaded with thirty different values, the last one 39
C39_Witness ==
    /\ upCount = 30
    /\ upNext = upCount
    /\ Cardinality({upPcts[k] : k \in 1..Len(upPcts)}) = 30
    /\ upPcts[30] = 39

\* with more than thirty chunks two consecutive chunks report the same value
RepeatsBeyondThirty ==
    (upCount > 30 /\ upNext = upCount) => \E k \in 1..(Len(upPcts) - 1) : upPcts[k] = upPcts[k + 1]

----------------------------------------------------------------------------
(* A chunk that holds one file larger than the maximum                      *)
OversizeSingleton(chunk) == Len(chunk) = 1 /\ getFileSize(chunk[1]) > cfMax

(* C40: chunkFiles fills chunks greedily in ascending size order: read in   *)
(* output order the chunks give the files in non-decreasing size, and for   *)
(* two consecutive chunks that are not oversize singletons the size of the  *)
(* earlier chunk plus the size of the first file of the later chunk exceeds *)
(* the maximum.                                                             *)
C40_GreedyAscending ==
    cfPc = "done" =>
        LET all == Flatten(cfChunks) IN
        /\ \A i, j \in 1..Len(all) : i < j => getFileSize(all[i]) <= getFileSize(all[j])
        /\ \A k \in 1..(Len(cfChunks) - 1) :
              (~OversizeSingleton(cfChunks[k]) /\ ~OversizeSingleton(cfChunks[k + 1])) =>
                  calculateTotalSize(cfChunks[k]) + getFileSize(cfChunks[k + 1][1]) > cfMax

\* two files fill a chunk and the third, which fits the maximum by itself,
\* starts the next one; the input was not in ascending order
C40_Witness ==
    /\ cfPc = "done"
    /\ Len(cfChunks) = 2
    /\ Len(cfChunks[1]) = 2
    /\ ~OversizeSingleton(cfChunks[2])
    /\ cfFiles # Flatten(cfChunks)

====
